---- MODULE Spec2Model ----
(***************************************************************************)
(* Task queue with locking (mcp-server/lib/task-lock.js), its MCP tool     *)
(* handlers (mcp-server/tools/tasks.js) and the in-memory event bus        *)
(* (mcp-server/lib/event-emitter.js).                                      *)
(*                                                                         *)
(* Time is the integer number of milliseconds returned by Date.now().      *)
(* Timestamps are stored by the program as ISO-8601 strings produced by    *)
(* toISOString() and read back with new Date(s).getTime(); both have       *)
(* millisecond resolution, so a stored timestamp is modelled as the        *)
(* millisecond count it was made from.                                     *)
(***************************************************************************)
EXTENDS Integers, Sequences, FiniteSets, TLC

(***************************************************************************)
(* Bounds of the model.                                                    *)
(***************************************************************************)
MaxClockSteps == 2
MaxBusClockSteps == 3
MaxEmits == 3
MaxSubs == 1
MaxPolls == 2

(***************************************************************************)
(* Program constants.                                                      *)
(***************************************************************************)
STALE_LOCK_MS == 30 * 60 * 1000
MAX_EVENTS == 1000
EVENT_RETENTION_MS == 60 * 60 * 1000
EVENT_TYPES ==
  {"job.created", "job.updated", "job.deleted", "task.created",
   "task.claimed", "task.completed", "research.saved", "materials.saved"}

\* values standing for "field absent" and for JavaScript null
NoTime == 0 - 1
Absent == "absent"
NoFilename == <<>>
NullStr == "null"

\* lib/db.js slugify.  A string is the sequence of its characters.
UpperCase == <<"A", "B", "C", "D", "E", "F", "G", "H", "I", "J", "K", "L", "M",
               "N", "O", "P", "Q", "R", "S", "T", "U", "V", "W", "X", "Y", "Z">>
LowerCase == <<"a", "b", "c", "d", "e", "f", "g", "h", "i", "j", "k", "l", "m",
               "n", "o", "p", "q", "r", "s", "t", "u", "v", "w", "x", "y", "z">>
Digits == {"0", "1", "2", "3", "4", "5", "6", "7", "8", "9"}

toLowerCase(c) ==
  IF \E i \in DOMAIN UpperCase : UpperCase[i] = c
    THEN LowerCase[CHOOSE i \in DOMAIN UpperCase : UpperCase[i] = c]
    ELSE c

\* c is matched by [a-z0-9]
IsSlugChar(c) == (\E i \in DOMAIN LowerCase : LowerCase[i] = c) \/ c \in Digits

RECURSIVE SkipNonSlug(_)
SkipNonSlug(s) ==
  IF s = <<>> \/ IsSlugChar(Head(s)) THEN s ELSE SkipNonSlug(Tail(s))

\* .replace(/[^a-z0-9]+/g, '-')
RECURSIVE ReplaceNonSlugRuns(_)
ReplaceNonSlugRuns(s) ==
  IF s = <<>> THEN <<>>
  ELSE IF IsSlugChar(Head(s))
    THEN <<Head(s)>> \o ReplaceNonSlugRuns(Tail(s))
    ELSE <<"-">> \o ReplaceNonSlugRuns(SkipNonSlug(Tail(s)))

\* .replace(/^-|-$/g, '')
StripDashEnds(s) ==
  LET a == IF s # <<>> /\ Head(s) = "-" THEN Tail(s) ELSE s IN
  IF a # <<>> /\ a[Len(a)] = "-" THEN SubSeq(a, 1, Len(a) - 1) ELSE a

slugify(companyName) ==
  StripDashEnds(ReplaceNonSlugRuns(
    [i \in DOMAIN companyName |-> toLowerCase(companyName[i])]))

\* the template strings of tools/tasks.js, as <<prefix, slug, extension>>
ResearchFilename(companySlug) == <<"research-", companySlug, ".json">>
MaterialsFilename(companySlug) ==
  <<"generate-materials-", companySlug, ".json">>

\* the rows of the jobs table
AcmeAI == <<"A", "c", "m", "e", " ", "A", "I">>
AcmeBang == <<"A", "c", "m", "e", "!">>
JobTable == {[id |-> 1, company |-> AcmeAI],
             [id |-> 3, company |-> AcmeAI],
             [id |-> 4, company |-> AcmeBang]}
JobIdArgs == {1, 2}

\* the inputs the callers draw from
Filenames == {ResearchFilename(slugify(AcmeAI)),
              MaterialsFilename(slugify(AcmeAI))}
Agents == {"worker-A", "worker-B"}
AgentArgs == Agents
TaskTypes == {"research", "materials"}
TaskData == [type : TaskTypes, jobId : {1}, company : {AcmeAI}]
EmitTypes == {"task.created", "job.created", "not.a.type"}
SubscribeRequests == SUBSET {"task.created", "not.a.type"}
\* last_event_id: null
NullId == 0

VARIABLES
  tasks,          \* the tasks directory: filename -> parsed content of the file
  now,            \* the clock (Date.now())
  ret,            \* the call made by the last step and what it returned
  eventStore,     \* event-emitter: the array of stored events
  subscriptions,  \* event-emitter: Map subscription id -> subscription
  pendingPolls,   \* event-emitter: Map poll id -> pending poll
  timers,         \* poll ids whose setTimeout timer is armed
  pollRes,        \* poll id -> the results passed to the promise's resolve
  nEvents,        \* number of event ids generated
  nSubs,          \* number of subscription ids generated
  nPolls,         \* number of poll ids generated
  inFlight,       \* event id -> the notifyWebhooks call awaiting its fetch
  pc,             \* worker process -> where it is in its library call
  loc,            \* worker process -> the local variables of its call
  rres            \* worker process -> what its last finished call returned

busVars == <<eventStore, subscriptions, pendingPolls, timers, pollRes,
             nEvents, nSubs, nPolls, inFlight>>
raceVars == <<pc, loc, rres>>
vars == <<tasks, now, ret, busVars, raceVars>>

(***************************************************************************)
(* lib/db.js file helpers, on a directory D (a function whose domain is    *)
(* the set of files that exist).                                           *)
(***************************************************************************)
fileExists(D, filename) == filename \in DOMAIN D

readJsonFile(D, filename, defaultValue) ==
  IF filename \in DOMAIN D THEN D[filename] ELSE defaultValue

writeJsonFile(D, filename, data) ==
  [g \in (DOMAIN D) \cup {filename} |-> IF g = filename THEN data ELSE D[g]]

unlink(D, filename) == [g \in (DOMAIN D) \ {filename} |-> D[g]]

\* deleteFile that reports success without unlinking
deleteFileKeepsFile(D, filename) ==
  IF filename \in DOMAIN D
    THEN [dir |-> D, deleted |-> TRUE]
    ELSE [dir |-> D, deleted |-> FALSE]

\* result of deleteFile: the directory afterwards and the boolean returned
deleteFile(D, filename) ==
  IF filename \in DOMAIN D
    THEN [dir |-> unlink(D, filename), deleted |-> TRUE]
    ELSE [dir |-> D, deleted |-> FALSE]

\* the value readJsonFile returns for a missing file
NoTask == [missing |-> TRUE]

(***************************************************************************)
(* lib/task-lock.js                                                        *)
(***************************************************************************)
\* isLockStale with the comparison "at least the threshold"
isLockStaleInclusive(task, t) ==
  IF task.claimed_at = NoTime THEN FALSE
  ELSE (t - task.claimed_at) >= STALE_LOCK_MS

isLockStale(task, t) ==
  IF task.claimed_at = NoTime THEN FALSE
  ELSE (t - task.claimed_at) > STALE_LOCK_MS

getTask(D, filename) == readJsonFile(D, filename, NoTask)

\* the record createTask writes: {...taskData, createdAt, status: 'pending'}
NewTask(taskData, t) ==
  [type |-> taskData.type, jobId |-> taskData.jobId,
   company |-> taskData.company, createdAt |-> t,
   status |-> "pending", claimed_at |-> NoTime, claimed_by |-> Absent,
   filename |-> NoFilename]

\* a claim that stamps createdAt as well
ClaimedRestamped(task, filename, agentId, t) ==
  [task EXCEPT !.status = "in_progress", !.claimed_at = t,
               !.claimed_by = agentId, !.filename = filename,
               !.createdAt = t]

\* a claim that does not stamp the record
ClaimedUnstamped(task, filename, agentId, t) ==
  [task EXCEPT !.status = "in_progress", !.claimed_by = agentId,
               !.filename = filename]

\* the record a successful claimTask writes
Claimed(task, filename, agentId, t) ==
  [task EXCEPT !.status = "in_progress", !.claimed_at = t,
               !.claimed_by = agentId, !.filename = filename]

\* releaseTask that forgets to delete claimed_by
ReleasedKeepsClaimant(task) ==
  [task EXCEPT !.status = "pending", !.claimed_at = NoTime]

\* the record releaseTask writes
Released(task) ==
  [task EXCEPT !.status = "pending", !.claimed_at = NoTime,
               !.claimed_by = Absent]

\* the test of claimTask with the negation of isLockStale lost
AlreadyClaimedNegationLost(task, t) ==
  task.status = "in_progress" /\ isLockStale(task, t)

\* claimTask's test "already claimed (and not stale)"
AlreadyClaimed(task, t) ==
  task.status = "in_progress" /\ ~isLockStale(task, t)

\* a claimTask that lets the holder of a claim claim again
claimTaskReentrant(D, filename, agentId, t) ==
  IF ~fileExists(D, filename)
    THEN [dir |-> D, res |-> [success |-> FALSE, error |-> "Task not found"]]
  ELSE LET task == readJsonFile(D, filename, NoTask) IN
    IF AlreadyClaimed(task, t) /\ task.claimed_by # agentId
      THEN [dir |-> D,
            res |-> [success |-> FALSE, error |-> "Task already claimed",
                     claimed_by |-> task.claimed_by,
                     claimed_at |-> task.claimed_at]]
    ELSE LET claimed == Claimed(task, filename, agentId, t) IN
      [dir |-> writeJsonFile(D, filename, claimed),
       res |-> [success |-> TRUE, task |-> claimed, locked |-> TRUE,
                claimed_at |-> t]]

\* Each library function, run without interruption on directory D at time t,
\* is [dir |-> the directory afterwards, res |-> the object returned].
claimTask(D, filename, agentId, t) ==
  IF ~fileExists(D, filename)
    THEN [dir |-> D, res |-> [success |-> FALSE, error |-> "Task not found"]]
  ELSE LET task == readJsonFile(D, filename, NoTask) IN
    IF AlreadyClaimed(task, t)
      THEN [dir |-> D,
            res |-> [success |-> FALSE, error |-> "Task already claimed",
                     claimed_by |-> task.claimed_by,
                     claimed_at |-> task.claimed_at]]
    ELSE LET claimed == Claimed(task, filename, agentId, t) IN
      [dir |-> writeJsonFile(D, filename, claimed),
       res |-> [success |-> TRUE, task |-> claimed, locked |-> TRUE,
                claimed_at |-> t]]

releaseTask(D, filename) ==
  IF ~fileExists(D, filename)
    THEN [dir |-> D, res |-> [success |-> FALSE, error |-> "Task not found"]]
  ELSE LET task == readJsonFile(D, filename, NoTask) IN
    [dir |-> writeJsonFile(D, filename, Released(task)),
     res |-> [success |-> TRUE]]

completeTask(D, filename) ==
  IF ~fileExists(D, filename)
    THEN [dir |-> D, res |-> [success |-> FALSE, error |-> "Task not found"]]
  ELSE LET d == deleteFile(D, filename) IN
    [dir |-> d.dir,
     res |-> [success |-> d.deleted,
              error |-> IF d.deleted THEN NullStr
                        ELSE "Failed to delete task file"]]

\* createTask without the existence check
createTaskNoCheck(D, taskData, filename, t) ==
  [dir |-> writeJsonFile(D, filename, NewTask(taskData, t)),
   res |-> [success |-> TRUE, already_exists |-> FALSE,
            filename |-> filename]]

createTask(D, taskData, filename, t) ==
  IF fileExists(D, filename)
    THEN [dir |-> D,
          res |-> [success |-> TRUE, already_exists |-> TRUE,
                   filename |-> filename]]
  ELSE [dir |-> writeJsonFile(D, filename, NewTask(taskData, t)),
        res |-> [success |-> TRUE, already_exists |-> FALSE,
                 filename |-> filename]]


(***************************************************************************)
(* listTasksSync.  files is the array readdirSync returned (the order of   *)
(* a directory listing is not specified); Array.prototype.sort is stable.  *)
(***************************************************************************)
Listings(D) ==
  {s \in [1..Cardinality(DOMAIN D) -> DOMAIN D] :
     \A i, j \in DOMAIN s : i # j => s[i] # s[j]}

\* the object pushed for one file: the parsed task, its filename, is_stale
ListEntry(task, filename, stale) ==
  [type |-> task.type, jobId |-> task.jobId, company |-> task.company,
   createdAt |-> task.createdAt,
   status |-> task.status, claimed_at |-> task.claimed_at,
   claimed_by |-> task.claimed_by, filename |-> filename,
   is_stale |-> stale]

\* the list's test with the comparison "at least the threshold"
StaleForListInclusive(task, includeStale, t) ==
  includeStale /\ task.status = "in_progress" /\ isLockStaleInclusive(task, t)

\* "in_progress with a stale lock, and includeStale"
StaleForList(task, includeStale, t) ==
  includeStale /\ task.status = "in_progress" /\ isLockStale(task, t)

\* the effective status without the stale-lock override
effectiveStatusStored(task, includeStale, t) == task.status

effectiveStatus(task, includeStale, t) ==
  IF StaleForList(task, includeStale, t) THEN "pending" ELSE task.status

\* the loop over files: filters applied, entries in listing order
RECURSIVE Collect(_, _, _, _, _, _)
Collect(D, files, type, status, includeStale, t) ==
  IF files = <<>> THEN <<>>
  ELSE LET filename == Head(files)
           task == getTask(D, filename)
           rest == Collect(D, Tail(files), type, status, includeStale, t)
       IN IF type # NullStr /\ task.type # type THEN rest
          ELSE IF status # NullStr
                  /\ effectiveStatus(task, includeStale, t) # status THEN rest
          ELSE <<ListEntry(task, filename,
                           StaleForList(task, includeStale, t))>> \o rest

\* the sort left out: entries stay in the order of the directory listing
InsertInListingOrder(e, sorted) == Append(sorted, e)

\* tasks.sort((a, b) => aTime - bTime), stable
RECURSIVE InsertByCreatedAt(_, _)
InsertByCreatedAt(e, sorted) ==
  IF sorted = <<>> THEN <<e>>
  ELSE IF Head(sorted).createdAt <= e.createdAt
         THEN <<Head(sorted)>> \o InsertByCreatedAt(e, Tail(sorted))
         ELSE <<e>> \o sorted

RECURSIVE SortByCreatedAt(_)
SortByCreatedAt(s) ==
  IF s = <<>> THEN <<>>
  ELSE InsertByCreatedAt(s[Len(s)], SortByCreatedAt(SubSeq(s, 1, Len(s) - 1)))

listTasksSync(D, files, type, status, includeStale, t) ==
  SortByCreatedAt(Collect(D, files, type, status, includeStale, t))

(***************************************************************************)
(* The clock.  Time passes in steps that visit, in order, the instants     *)
(* 0, S, S+1, 2S+1, 2S+2, ... (S the staleness threshold): a step of S     *)
(* milliseconds, then a step of one millisecond, and so on.  Any number of *)
(* calls, or none, happen at each instant.                                 *)
(***************************************************************************)
\* number of steps the clock has made to reach t
ClockSteps(t) == 2 * (t \div (STALE_LOCK_MS + 1)) +
                 (IF t % (STALE_LOCK_MS + 1) = STALE_LOCK_MS THEN 1 ELSE 0)

ClockStep(t) == IF ClockSteps(t) % 2 = 0 THEN STALE_LOCK_MS ELSE 1

TickLock ==
  /\ ClockSteps(now) < MaxClockSteps
  /\ now' = now + ClockStep(now)
  /\ UNCHANGED <<tasks, ret, busVars, raceVars>>

(***************************************************************************)
(* One process calling the library: every call runs to completion.         *)
(***************************************************************************)
Init ==
  /\ tasks = <<>>
  /\ now = 0
  /\ ret = [op |-> "none"]
  /\ eventStore = <<>>
  /\ subscriptions = <<>>
  /\ pendingPolls = <<>>
  /\ timers = {}
  /\ pollRes = <<>>
  /\ nEvents = 0
  /\ nSubs = 0
  /\ nPolls = 0
  /\ inFlight = <<>>
  /\ pc = [w \in Agents |-> "idle"]
  /\ loc = [w \in Agents |-> [filename |-> NoFilename]]
  /\ rres = [w \in Agents |-> [op |-> "none"]]

CallCreateTask ==
  \E filename \in Filenames, taskData \in TaskData :
    LET r == createTask(tasks, taskData, filename, now) IN
    /\ tasks' = r.dir
    /\ ret' = [op |-> "createTask", filename |-> filename,
               taskData |-> taskData, res |-> r.res]
    /\ UNCHANGED <<now, busVars, raceVars>>

CallClaimTask ==
  \E filename \in Filenames, agentId \in AgentArgs :
    LET r == claimTask(tasks, filename, agentId, now) IN
    /\ tasks' = r.dir
    /\ ret' = [op |-> "claimTask", filename |-> filename,
               agentId |-> agentId, res |-> r.res]
    /\ UNCHANGED <<now, busVars, raceVars>>

CallReleaseTask ==
  \E filename \in Filenames :
    LET r == releaseTask(tasks, filename) IN
    /\ tasks' = r.dir
    /\ ret' = [op |-> "releaseTask", filename |-> filename, res |-> r.res]
    /\ UNCHANGED <<now, busVars, raceVars>>

CallCompleteTask ==
  \E filename \in Filenames :
    LET r == completeTask(tasks, filename) IN
    /\ tasks' = r.dir
    /\ ret' = [op |-> "completeTask", filename |-> filename, res |-> r.res]
    /\ UNCHANGED <<now, busVars, raceVars>>

CallGetTask ==
  \E filename \in Filenames :
    /\ ret' = [op |-> "getTask", filename |-> filename,
               res |-> getTask(tasks, filename)]
    /\ UNCHANGED <<tasks, now, busVars, raceVars>>

ListFilters ==
  [type : {"research", NullStr}, status : {"pending", "in_progress", NullStr},
   includeStale : BOOLEAN]

CallListTasksSync ==
  \E flt \in ListFilters, files \in Listings(tasks) :
    /\ ret' = [op |-> "listTasksSync", filter |-> flt,
               res |-> listTasksSync(tasks, files, flt.type, flt.status,
                                     flt.includeStale, now)]
    /\ UNCHANGED <<tasks, now, busVars, raceVars>>

NextLock ==
  \/ CallCreateTask
  \/ CallClaimTask
  \/ CallReleaseTask
  \/ CallCompleteTask
  \/ CallGetTask
  \/ TickLock

SpecLock == Init /\ [][NextLock]_vars

\* the same process, also listing the queue
NextList ==
  \/ CallCreateTask
  \/ CallClaimTask
  \/ CallReleaseTask
  \/ CallCompleteTask
  \/ CallGetTask
  \/ CallListTasksSync
  \/ TickLock

SpecList == Init /\ [][NextList]_vars


(***************************************************************************)
(* Properties of the library under SpecLock and SpecList.                  *)
(***************************************************************************)
\* the step is a call of op on filename f (a clock tick leaves ret alone)
Did(op, f) == now' = now /\ ret'.op = op /\ ret'.filename = f

\* the stored record is in_progress and its claim is at most 30 minutes old
FreshClaim(f) ==
  /\ f \in DOMAIN tasks
  /\ tasks[f].status = "in_progress"
  /\ now - tasks[f].claimed_at <= 30 * 60 * 1000

\* the stored record is in_progress and its claim is more than 30 minutes old
OldClaim(f) ==
  /\ f \in DOMAIN tasks
  /\ tasks[f].status = "in_progress"
  /\ tasks[f].claimed_at # NoTime
  /\ now - tasks[f].claimed_at > 30 * 60 * 1000

C3_IdempotentCreate ==
  [][\A f \in Filenames :
       /\ (Did("createTask", f) /\ f \notin DOMAIN tasks) =>
            /\ ret'.res.already_exists = FALSE
            /\ f \in DOMAIN tasks'
       /\ (Did("createTask", f) /\ ret.op = "createTask" /\ ret.filename = f
             /\ ret.res.already_exists = FALSE) =>
            /\ ret'.res.already_exists = TRUE
            /\ tasks' = tasks]_vars

\* a second create carried another payload and the first one's is stored
C3_Witness ==
  /\ ret.op = "createTask"
  /\ ret.filename \in DOMAIN tasks
  /\ ret.res.already_exists = TRUE
  /\ tasks[ret.filename].type # ret.taskData.type
  /\ tasks[ret.filename].status = "pending"

EntriesOf(list, f) == {i \in DOMAIN list : list[i].filename = f}

C6_CompleteRemoves ==
  [][\A f \in Filenames :
       /\ (Did("completeTask", f) /\ ret'.res.success) => f \notin DOMAIN tasks'
       /\ (ret.op = "completeTask" /\ ret.filename = f /\ ret.res.success
             /\ now' = now) =>
            /\ ret'.op = "listTasksSync" => EntriesOf(ret'.res, f) = {}
            /\ Did("getTask", f) => ret'.res = NoTask
            /\ (Did("claimTask", f) \/ Did("releaseTask", f)
                  \/ Did("completeTask", f)) =>
                 /\ ret'.res.success = FALSE
                 /\ ret'.res.error = "Task not found"
                 /\ tasks' = tasks
            /\ Did("createTask", f) =>
                 /\ ret'.res.already_exists = FALSE
                 /\ tasks'[f] = [type |-> ret'.taskData.type,
                                 jobId |-> ret'.taskData.jobId,
                                 company |-> ret'.taskData.company,
                                 createdAt |-> now, status |-> "pending",
                                 claimed_at |-> NoTime, claimed_by |-> Absent,
                                 filename |-> NoFilename]]_vars

\* a file that had been claimed was completed and created again later
C6_Witness ==
  /\ ret.op = "createTask"
  /\ ret.filename \in DOMAIN tasks
  /\ ret.res.already_exists = FALSE
  /\ tasks[ret.filename].createdAt > 0
  /\ tasks[ret.filename].claimed_at = NoTime
  /\ \E g \in DOMAIN tasks : tasks[g].status = "in_progress"

\* C7: releaseTask on an existing record succeeds whatever its status and
\* claimant, leaves it pending without claimed_at and claimed_by and with its
\* other fields and the other files untouched; on a pending record it changes
\* nothing (so a second release changes nothing).
C7_ReleaseIdempotent ==
  [][\A f \in Filenames :
       (Did("releaseTask", f) /\ f \in DOMAIN tasks) =>
         /\ ret'.res.success = TRUE
         /\ tasks' = [tasks EXCEPT ![f] =
                        [type |-> tasks[f].type, jobId |-> tasks[f].jobId,
                         company |-> tasks[f].company,
                         createdAt |-> tasks[f].createdAt,
                         status |-> "pending", claimed_at |-> NoTime,
                         claimed_by |-> Absent,
                         filename |-> tasks[f].filename]]
         /\ tasks[f].status = "pending" => tasks' = tasks]_vars

\* a record that had been claimed was released while another one is held
C7_Witness ==
  /\ ret.op = "releaseTask"
  /\ ret.filename \in DOMAIN tasks
  /\ ret.res.success = TRUE
  /\ tasks[ret.filename].filename = ret.filename
  /\ tasks[ret.filename].status = "pending"
  /\ tasks[ret.filename].claimed_by = Absent
  /\ \E g \in DOMAIN tasks : tasks[g].claimed_by = "worker-B"


(***************************************************************************)
(* Several worker processes sharing the tasks directory.  Each process     *)
(* runs claimTask one file-system call at a time: existsSync (fileExists), *)
(* the read (readJsonFile) followed by the staleness test, the reading of  *)
(* the clock for claimed_at, and writeFileSync (writeJsonFile).  Steps of  *)
(* different processes interleave.  Worker w passes its own name as        *)
(* agentId.                                                                *)
(***************************************************************************)
Return(w, op, res) ==
  /\ pc' = [pc EXCEPT ![w] = "idle"]
  /\ rres' = [rres EXCEPT ![w] = [op |-> op, filename |-> loc[w].filename,
                                  res |-> res]]

\* claimTask, lines 119-124: the existence check
ClaimExists(w) ==
  /\ pc[w] = "idle"
  /\ \E filename \in Filenames :
       /\ loc' = [loc EXCEPT ![w] = [filename |-> filename]]
       /\ IF fileExists(tasks, filename)
            THEN /\ pc' = [pc EXCEPT ![w] = "claim_read"]
                 /\ UNCHANGED rres
            ELSE /\ pc' = [pc EXCEPT ![w] = "idle"]
                 /\ rres' = [rres EXCEPT ![w] =
                      [op |-> "claimTask", filename |-> filename,
                       res |-> [success |-> FALSE,
                                error |-> "Task not found"]]]
  /\ UNCHANGED <<tasks, now, ret, busVars>>

\* claimTask, lines 126-139: read the file, test "already claimed"
ClaimRead(w) ==
  /\ pc[w] = "claim_read"
  /\ LET task == readJsonFile(tasks, loc[w].filename, NoTask) IN
       IF task = NoTask
         THEN /\ Return(w, "claimTask",
                        [success |-> FALSE,
                         error |-> "Failed to read task file"])
              /\ UNCHANGED loc
       ELSE IF AlreadyClaimed(task, now)
         THEN /\ Return(w, "claimTask",
                        [success |-> FALSE, error |-> "Task already claimed",
                         claimed_by |-> task.claimed_by,
                         claimed_at |-> task.claimed_at])
              /\ UNCHANGED loc
       ELSE /\ pc' = [pc EXCEPT ![w] = "claim_stamp"]
            /\ loc' = [loc EXCEPT ![w] = [filename |-> loc[w].filename,
                                          task |-> task]]
            /\ UNCHANGED rres
  /\ UNCHANGED <<tasks, now, ret, busVars>>

\* claimTask, lines 141-146: read the clock, fill in the claim
ClaimStamp(w) ==
  /\ pc[w] = "claim_stamp"
  /\ pc' = [pc EXCEPT ![w] = "claim_write"]
  /\ loc' = [loc EXCEPT ![w].task =
               Claimed(loc[w].task, loc[w].filename, w, now)]
  /\ UNCHANGED <<tasks, now, ret, rres, busVars>>

\* claimTask, lines 148-156: write the file, return success
ClaimWrite(w) ==
  /\ pc[w] = "claim_write"
  /\ tasks' = writeJsonFile(tasks, loc[w].filename, loc[w].task)
  /\ Return(w, "claimTask",
            [success |-> TRUE, task |-> loc[w].task, locked |-> TRUE,
             claimed_at |-> loc[w].task.claimed_at])
  /\ UNCHANGED <<loc, now, ret, busVars>>

\* The race starts from a queue that holds one pending record, as written
\* by createTask at time 0.
InitRace ==
  /\ \E filename \in Filenames, taskData \in TaskData :
       tasks = createTask(<<>>, taskData, filename, 0).dir
  /\ now = 0
  /\ ret = [op |-> "none"]
  /\ eventStore = <<>>
  /\ subscriptions = <<>>
  /\ pendingPolls = <<>>
  /\ timers = {}
  /\ pollRes = <<>>
  /\ nEvents = 0
  /\ nSubs = 0
  /\ nPolls = 0
  /\ inFlight = <<>>
  /\ pc = [w \in Agents |-> "idle"]
  /\ loc = [w \in Agents |-> [filename |-> NoFilename]]
  /\ rres = [w \in Agents |-> [op |-> "none"]]

NextRace ==
  \/ TickLock
  \/ \E w \in Agents : ClaimExists(w)
  \/ \E w \in Agents : ClaimRead(w)
  \/ \E w \in Agents : ClaimStamp(w)
  \/ \E w \in Agents : ClaimWrite(w)

SpecRace == InitRace /\ [][NextRace]_vars

\* C1: of the claimTask calls that workers run on one key, at most one
\* returns success per lock period: no two workers hold successful results
\* for the same key whose claimed_at are within 30 minutes of each other
\* (SpecRace has neither releaseTask nor completeTask).
C1_AtMostOneClaim ==
  \A w1, w2 \in Agents :
    (/\ w1 # w2
     /\ rres[w1].op = "claimTask" /\ rres[w2].op = "claimTask"
     /\ rres[w1].filename = rres[w2].filename
     /\ rres[w1].res.success /\ rres[w2].res.success)
    => rres[w1].res.claimed_at - rres[w2].res.claimed_at > 30 * 60 * 1000
       \/ rres[w2].res.claimed_at - rres[w1].res.claimed_at > 30 * 60 * 1000


(***************************************************************************)
(* lib/event-emitter.js.  generateId() returns a fresh UUID; ids are       *)
(* modelled as the count of ids generated so far for the kind of object.   *)
(* A Map is a function from the keys it holds; Map iteration is in         *)
(* insertion order, which is the order of these ids.                       *)
(***************************************************************************)
MapSet(m, k, v) == [x \in (DOMAIN m) \cup {k} |-> IF x = k THEN v ELSE m[x]]

MapDelete(m, ks) == [x \in (DOMAIN m) \ ks |-> m[x]]

Bus ==
  [eventStore |-> eventStore, subscriptions |-> subscriptions,
   pendingPolls |-> pendingPolls, timers |-> timers, pollRes |-> pollRes,
   nEvents |-> nEvents, inFlight |-> inFlight]

SetBus(B) ==
  /\ eventStore' = B.eventStore
  /\ subscriptions' = B.subscriptions
  /\ pendingPolls' = B.pendingPolls
  /\ timers' = B.timers
  /\ pollRes' = B.pollRes
  /\ nEvents' = B.nEvents
  /\ inFlight' = B.inFlight

Retained(e, t) == e.timestamp > t - EVENT_RETENTION_MS

\* pruneEvents with slice(0, MAX_EVENTS) for slice(-MAX_EVENTS)
pruneEventsKeepsOldest(store, t) ==
  LET kept == SelectSeq(store, LAMBDA e : Retained(e, t)) IN
  IF Len(kept) > MAX_EVENTS
    THEN SubSeq(kept, 1, MAX_EVENTS)
    ELSE kept

pruneEvents(store, t) ==
  LET kept == SelectSeq(store, LAMBDA e : Retained(e, t)) IN
  IF Len(kept) > MAX_EVENTS
    THEN SubSeq(kept, Len(kept) - MAX_EVENTS + 1, Len(kept))
    ELSE kept

\* notifyPollers without the test on the event's type
WokenAnyType(B, event) ==
  {p \in DOMAIN B.pendingPolls :
     B.pendingPolls[p].subscription_id \in DOMAIN B.subscriptions}

\* the pending polls notifyPollers resolves for event
Woken(B, event) ==
  {p \in DOMAIN B.pendingPolls :
     /\ B.pendingPolls[p].subscription_id \in DOMAIN B.subscriptions
     /\ event.type \in
          B.subscriptions[B.pendingPolls[p].subscription_id].event_types}

\* resolve(events) without clearTimeout
ResolvePollsTimerArmed(B, ps, events) ==
  [B EXCEPT
     !.subscriptions =
        [s \in DOMAIN @ |->
           IF events # <<>>
              /\ \E p \in ps : B.pendingPolls[p].subscription_id = s
             THEN [@[s] EXCEPT !.last_event_id = events[Len(events)].id]
             ELSE @[s]],
     !.pollRes = [p \in DOMAIN @ |->
                    IF p \in ps THEN Append(@[p], events) ELSE @[p]]]

\* the pending poll's resolve(events), for every poll in ps: the timer is
\* cleared, a non-empty result moves the subscription's cursor, the promise
\* is resolved
ResolvePolls(B, ps, events) ==
  [B EXCEPT
     !.timers = @ \ ps,
     !.subscriptions =
        [s \in DOMAIN @ |->
           IF events # <<>>
              /\ \E p \in ps : B.pendingPolls[p].subscription_id = s
             THEN [@[s] EXCEPT !.last_event_id = events[Len(events)].id]
             ELSE @[s]],
     !.pollRes = [p \in DOMAIN @ |->
                    IF p \in ps THEN Append(@[p], events) ELSE @[p]]]

notifyPollers(B, event) ==
  LET ps == Woken(B, event) IN
  [ResolvePolls(B, ps, <<event>>) EXCEPT
     !.pendingPolls = MapDelete(@, ps)]

\* the first subscription after the one with id `after`, in the order of
\* the Map, that notifyWebhooks posts event to; NullId if there is none
NextWebhook(subs, event, after) ==
  LET S == {s \in DOMAIN subs :
              /\ s > after
              /\ subs[s].webhook_url # NullStr
              /\ event.type \in subs[s].event_types}
  IN IF S = {} THEN NullId ELSE CHOOSE s \in S : \A o \in S : s <= o

\* the loop of notifyWebhooks from the entry after `after` up to its next
\* await: the fetch to the next webhook subscription is in flight, or the
\* loop has ended
ContinueWebhooks(B, event, after) ==
  LET s == NextWebhook(B.subscriptions, event, after) IN
  [B EXCEPT !.inFlight =
     IF s = NullId THEN MapDelete(@, {event.id})
     ELSE MapSet(@, event.id, [event |-> event, at |-> s])]

\* notifyWebhooks(event), which emit calls without awaiting it
notifyWebhooks(B, event) == ContinueWebhooks(B, event, NullId)

\* a delivery loop that a rejected fetch ends: the subscriptions after the
\* failing one are not posted to
fetchSettledAborts(B, e, ok) ==
  LET d == B.inFlight[e]
      marked == IF d.at \in DOMAIN B.subscriptions
                  THEN [B EXCEPT !.subscriptions[d.at].last_event_id =
                                    d.event.id]
                  ELSE B
  IN IF ok THEN ContinueWebhooks(marked, d.event, d.at)
     ELSE [B EXCEPT !.inFlight = MapDelete(@, {e})]

\* the fetch awaited by the notifyWebhooks call of event id e settles: when
\* it is fulfilled the subscription's last_event_id is set, when it is
\* rejected the catch block logs; then the loop goes on
fetchSettled(B, e, ok) ==
  LET d == B.inFlight[e]
      marked == IF ok /\ d.at \in DOMAIN B.subscriptions
                  THEN [B EXCEPT !.subscriptions[d.at].last_event_id =
                                    d.event.id]
                  ELSE B
  IN ContinueWebhooks(marked, d.event, d.at)

\* emit: [bus |-> the bus afterwards, event |-> the event returned]
emit(B, type, payload, t) ==
  LET event == [id |-> B.nEvents + 1, type |-> type, timestamp |-> t,
                payload |-> payload]
      stored == [B EXCEPT !.nEvents = @ + 1,
                          !.eventStore = pruneEvents(Append(@, event), t)]
  IN [bus |-> notifyWebhooks(notifyPollers(stored, event), event),
      event |-> event]

\* a cursor that starts at the time of the subscription
lastEventTimeFromCreation(store, subscription) ==
  IF subscription.last_event_id # NullId
     /\ \E i \in DOMAIN store : store[i].id = subscription.last_event_id
    THEN LET i == CHOOSE i \in DOMAIN store :
                    store[i].id = subscription.last_event_id
         IN store[i].timestamp
    ELSE subscription.created_at

\* poll, lines 297-306
lastEventTime(store, subscription) ==
  IF subscription.last_event_id # NullId
     /\ \E i \in DOMAIN store : store[i].id = subscription.last_event_id
    THEN LET i == CHOOSE i \in DOMAIN store :
                    /\ store[i].id = subscription.last_event_id
                    /\ \A j \in 1..(i - 1) :
                         store[j].id # subscription.last_event_id
         IN store[i].timestamp
    ELSE NoTime

IsPending(e, subscription, lastTime) ==
  /\ e.type \in subscription.event_types
  /\ ~(lastTime # NoTime /\ e.timestamp <= lastTime)

pendingEvents(store, subscription) ==
  SelectSeq(store,
            LAMBDA e : IsPending(e, subscription,
                                 lastEventTime(store, subscription)))

(***************************************************************************)
(* The bus clock visits the instants 0, 1, R, R+1, 2R, ... (R the          *)
(* retention period).                                                      *)
(***************************************************************************)
BusClockSteps(t) ==
  2 * (t \div EVENT_RETENTION_MS) + (t % EVENT_RETENTION_MS)

BusClockStep(t) ==
  IF t % EVENT_RETENTION_MS = 0 THEN 1 ELSE EVENT_RETENTION_MS - 1

TickBus ==
  /\ BusClockSteps(now) < MaxBusClockSteps
  /\ now' = now + BusClockStep(now)
  /\ UNCHANGED <<tasks, ret, busVars, raceVars>>

(***************************************************************************)
(* Calls of the event bus, in the one process that owns it.                *)
(***************************************************************************)
CallEmit ==
  /\ nEvents < MaxEmits
  /\ \E type \in EmitTypes :
       LET r == emit(Bus, type, <<>>, now) IN
       /\ SetBus(r.bus)
       /\ ret' = [op |-> "emit", res |-> r.event]
  /\ UNCHANGED <<tasks, now, nSubs, nPolls, raceVars>>

\* subscribe({event_types, webhook_url}): id is the id generateId() returns
subscribe(B, event_types, webhook_url, id, t) ==
  LET validTypes == {type \in event_types : type \in EVENT_TYPES} IN
  IF validTypes = {}
    THEN [bus |-> B,
          res |-> [success |-> FALSE,
                   error |-> "No valid event types specified"]]
    ELSE [bus |-> [B EXCEPT !.subscriptions =
                     MapSet(@, id,
                            [id |-> id, event_types |-> validTypes,
                             webhook_url |-> webhook_url,
                             callback_id |-> NullStr,
                             created_at |-> t, last_event_id |-> NullId])],
          res |-> [success |-> TRUE, subscription_id |-> id,
                   event_types |-> validTypes]]

CallSubscribe ==
  /\ nSubs < MaxSubs
  /\ \E event_types \in SubscribeRequests :
       LET r == subscribe(Bus, event_types, NullStr, nSubs + 1, now) IN
       /\ SetBus(r.bus)
       /\ nSubs' = IF r.res.success THEN nSubs + 1 ELSE nSubs
       /\ ret' = [op |-> "subscribe", event_types |-> event_types,
                  res |-> r.res]
  /\ UNCHANGED <<tasks, now, nPolls, raceVars>>

\* the pending polls of a subscription
PollsOf(B, subscriptionId) ==
  {p \in DOMAIN B.pendingPolls :
     B.pendingPolls[p].subscription_id = subscriptionId}

\* unsubscribe that leaves the pending polls of the subscription waiting
unsubscribeLeavesPolls(B, subscriptionId) ==
  IF subscriptionId \notin DOMAIN B.subscriptions
    THEN [bus |-> B,
          res |-> [success |-> FALSE, error |-> "Subscription not found"]]
    ELSE [bus |-> [B EXCEPT !.subscriptions = MapDelete(@, {subscriptionId})],
          res |-> [success |-> TRUE]]

unsubscribe(B, subscriptionId) ==
  IF subscriptionId \notin DOMAIN B.subscriptions
    THEN [bus |-> B,
          res |-> [success |-> FALSE, error |-> "Subscription not found"]]
    ELSE LET ps == PollsOf(B, subscriptionId) IN
         [bus |-> [ResolvePolls(B, ps, <<>>) EXCEPT
                     !.pendingPolls = MapDelete(@, ps),
                     !.subscriptions = MapDelete(@, {subscriptionId})],
          res |-> [success |-> TRUE]]

CallUnsubscribe ==
  /\ \E subscriptionId \in 1..MaxSubs :
       LET r == unsubscribe(Bus, subscriptionId) IN
       /\ SetBus(r.bus)
       /\ ret' = [op |-> "unsubscribe", subscription_id |-> subscriptionId,
                  res |-> r.res]
  /\ UNCHANGED <<tasks, now, nSubs, nPolls, raceVars>>

\* poll(subscriptionId, timeoutMs): pollId is the id generateId() gives the
\* poll if it suspends.  res.outcome tells what became of the promise:
\* "error" and "resolved" are resolved before poll returns, "suspended" is
\* resolved later through pollRes[pollId].  The timer armed by a suspended
\* poll fires timeoutMs later, which for some timeoutMs is any later moment:
\* see PollTimeout.
poll(B, subscriptionId, pollId) ==
  IF subscriptionId \notin DOMAIN B.subscriptions
    THEN [bus |-> B,
          res |-> [outcome |-> "error", error |-> "Subscription not found",
                   events |-> <<>>, pollId |-> NullId]]
    ELSE LET subscription == B.subscriptions[subscriptionId]
             pending == pendingEvents(B.eventStore, subscription)
         IN IF pending # <<>>
              THEN [bus |-> [B EXCEPT
                               !.subscriptions[subscriptionId].last_event_id =
                                  pending[Len(pending)].id],
                    res |-> [outcome |-> "resolved", error |-> NullStr,
                             events |-> pending, pollId |-> NullId]]
              ELSE [bus |-> [B EXCEPT
                               !.pendingPolls =
                                  MapSet(@, pollId,
                                         [subscription_id |-> subscriptionId]),
                               !.timers = @ \cup {pollId},
                               !.pollRes = MapSet(@, pollId, <<>>)],
                    res |-> [outcome |-> "suspended", error |-> NullStr,
                             events |-> <<>>, pollId |-> pollId]]

CallPoll ==
  /\ \E subscriptionId \in 1..MaxSubs :
       LET r == poll(Bus, subscriptionId, nPolls + 1) IN
       /\ r.res.outcome = "suspended" => nPolls < MaxPolls
       /\ SetBus(r.bus)
       /\ nPolls' = IF r.res.outcome = "suspended" THEN nPolls + 1 ELSE nPolls
       /\ ret' = [op |-> "poll", subscription_id |-> subscriptionId,
                  res |-> r.res]
  /\ UNCHANGED <<tasks, now, nSubs, raceVars>>

\* the setTimeout callback of a suspended poll (poll, lines 317-320)
PollTimeout ==
  /\ \E pollId \in timers :
       /\ timers' = timers \ {pollId}
       /\ pendingPolls' = MapDelete(pendingPolls, {pollId})
       /\ pollRes' = [pollRes EXCEPT ![pollId] = Append(@, <<>>)]
  /\ UNCHANGED <<tasks, now, ret, eventStore, subscriptions, nEvents, nSubs,
                 nPolls, inFlight, raceVars>>

NextBus ==
  \/ CallEmit
  \/ CallSubscribe
  \/ CallUnsubscribe
  \/ CallPoll
  \/ PollTimeout
  \/ TickBus

SpecBus == Init /\ [][NextBus]_vars


(***************************************************************************)
(* Properties of the event bus under SpecBus.                              *)
(***************************************************************************)
\* the step is a call of poll on subscription s
PollCall(s) ==
  /\ now' = now
  /\ ret'.op = "poll" /\ ret'.subscription_id = s
  /\ (ret' # ret \/ subscriptions' # subscriptions \/ nPolls' # nPolls)

\* the cursor of s is at the event at position i of the log, and what was
\* emitted since is an event of a subscribed type, then one of another type
CursorThenTwo(s, i) ==
  /\ i \in DOMAIN eventStore
  /\ eventStore[i].id = subscriptions[s].last_event_id
  /\ Len(eventStore) = i + 2
  /\ eventStore[i + 1].type \in subscriptions[s].event_types
  /\ eventStore[i + 2].type \notin subscriptions[s].event_types

\* C9: with the cursor at E0 and E1 (subscribed type), E2 (other type)
\* emitted since, poll returns exactly <<E1>> and moves the cursor to E1; a
\* poll that directly follows a poll that returned events suspends; and a
\* timeout resolves its poll with the empty list.
C9_PollOncePerCursorAdvance ==
  [][/\ \A s \in DOMAIN subscriptions : \A i \in DOMAIN eventStore :
          (PollCall(s) /\ CursorThenTwo(s, i)) =>
            /\ ret'.res.outcome = "resolved"
            /\ ret'.res.events = <<eventStore[i + 1]>>
            /\ subscriptions'[s].last_event_id = eventStore[i + 1].id
     /\ \A s \in DOMAIN subscriptions :
          (PollCall(s) /\ ret.op = "poll" /\ ret.subscription_id = s
             /\ ret.res.outcome = "resolved") =>
            ret'.res.outcome = "suspended"
     /\ \A p \in timers :
          (p \notin timers' /\ ret' = ret) => pollRes'[p] = <<(<<>>)>>]_vars

\* C10: a poll on a subscription returns every event of the log that has a
\* subscribed type and was emitted after the event the cursor names (every
\* such event of the log when the cursor is null).
C10_NoMatchingEventSkipped ==
  [][\A s \in DOMAIN subscriptions :
       PollCall(s) =>
         \A i \in DOMAIN eventStore :
           (/\ eventStore[i].type \in subscriptions[s].event_types
            /\ eventStore[i].id > subscriptions[s].last_event_id) =>
             \E k \in DOMAIN ret'.res.events :
               ret'.res.events[k] = eventStore[i]]_vars


\* the events of the last resolution of pending poll p in this step
ResolvedWith(p) == pollRes'[p][Len(pollRes'[p])]

\* pending poll p is resolved by this step
ResolvedNow(p) == Len(pollRes'[p]) > Len(pollRes[p])

\* C11: no event is returned by more than one poll call of the same
\* subscription: two polls suspended on the same subscription that are
\* resolved by one step get no event in common, and a poll call that returns
\* at once returns only events emitted after the one its cursor names (the
\* cursor names the newest event any earlier poll of the subscription
\* returned).
C11_AtMostOnceDelivery ==
  [][/\ \A p, q \in DOMAIN pendingPolls :
          (/\ p # q
           /\ pendingPolls[p].subscription_id = pendingPolls[q].subscription_id
           /\ ResolvedNow(p) /\ ResolvedNow(q)) =>
            \A i \in DOMAIN ResolvedWith(p) : \A j \in DOMAIN ResolvedWith(q) :
              ResolvedWith(p)[i].id # ResolvedWith(q)[j].id
     /\ \A s \in DOMAIN subscriptions :
          PollCall(s) =>
            \A k \in DOMAIN ret'.res.events :
              ret'.res.events[k].id > subscriptions[s].last_event_id]_vars


(***************************************************************************)
(* The event bus within one millisecond: subscribers, pollers and          *)
(* emitters, and the timers of the suspended polls.                        *)
(***************************************************************************)
NextPoll ==
  \/ CallEmit
  \/ CallSubscribe
  \/ CallUnsubscribe
  \/ CallPoll
  \/ PollTimeout

SpecPoll == Init /\ [][NextPoll]_vars

\* the step is a call of emit
EmitCall == ret'.op = "emit" /\ nEvents' = nEvents + 1

\* the step is the timer of poll p firing
TimerFires(p) ==
  /\ p \in timers /\ p \notin timers'
  /\ ret' = ret /\ subscriptions' = subscriptions /\ nEvents' = nEvents

\* C12: an emit of a type the subscription of a suspended poll lists resolves
\* that poll (every such poll) within the emit step, with the list holding
\* exactly the emitted event; an emit of another type leaves the poll
\* suspended, its timer armed and the subscription (cursor included) as it
\* was; a timer that fires resolves its poll with the empty list; and a poll
\* is resolved with a non-empty list by no other step than a matching emit.
\* (pollRes records the events handed to resolve; the object the promise
\* resolves with is {events}, which has no error field.)
C12_WokenOnlyByMatchingEmit ==
  [][\A p \in DOMAIN pendingPolls :
       LET s == pendingPolls[p].subscription_id IN
       /\ s \in DOMAIN subscriptions
       /\ (EmitCall /\ ret'.res.type \in subscriptions[s].event_types) =>
            /\ p \notin DOMAIN pendingPolls'
            /\ p \notin timers'
            /\ pollRes'[p] = Append(pollRes[p], <<ret'.res>>)
       /\ (EmitCall /\ ret'.res.type \notin subscriptions[s].event_types) =>
            /\ p \in DOMAIN pendingPolls'
            /\ p \in timers'
            /\ pollRes'[p] = pollRes[p]
            /\ subscriptions'[s] = subscriptions[s]
       /\ TimerFires(p) =>
            /\ p \notin DOMAIN pendingPolls'
            /\ pollRes'[p] = Append(pollRes[p], <<>>)
       /\ (ResolvedNow(p) /\ ResolvedWith(p) # <<>>) =>
            /\ EmitCall
            /\ ret'.res.type \in subscriptions[s].event_types]_vars

\* an emit of task.created has just woken the two polls that were suspended,
\* each with the emitted event alone
C12_Witness ==
  /\ ret.op = "emit"
  /\ ret.res.type = "task.created"
  /\ DOMAIN pollRes = {1, 2}
  /\ pollRes[1] = <<(<<ret.res>>)>>
  /\ pollRes[2] = <<(<<ret.res>>)>>
  /\ pendingPolls = <<>>
  /\ timers = {}


\* the timers are those of setTimeout: an armed timer that is not cleared
\* fires
SpecPollFair == SpecPoll /\ WF_vars(PollTimeout)

\* poll p has been resolved exactly once
ResolvedOnce(p) == p \in DOMAIN pollRes /\ Len(pollRes[p]) = 1

UnsubscribeCall(s) ==
  /\ ret'.op = "unsubscribe" /\ ret'.subscription_id = s
  /\ (ret' # ret \/ subscriptions' # subscriptions)

\* subscription id s was given out and its subscription has been removed
Removed(s) == s <= nSubs /\ s \notin DOMAIN subscriptions

DefaultLimit == 100

\* events.sort((a, b) => b.time - a.time): newest first, events of equal
\* timestamp keeping their order (Array.prototype.sort is stable)
\* Array.prototype.slice(start, end) for start >= 0: a negative end counts
\* from the end of the array
slice(arr, start, end) ==
  LET to == IF end < 0 THEN Len(arr) + end
            ELSE IF end > Len(arr) THEN Len(arr) ELSE end
  IN SubSeq(arr, start + 1, to)

\* a sort that leaves the events in the order of the log
InsertInLogOrder(sorted, e) == Append(sorted, e)

RECURSIVE InsertNewestFirst(_, _)
InsertNewestFirst(sorted, e) ==
  IF sorted = <<>> THEN <<e>>
  ELSE IF Head(sorted).timestamp >= e.timestamp
    THEN <<Head(sorted)>> \o InsertNewestFirst(Tail(sorted), e)
    ELSE <<e>> \o sorted

RECURSIVE SortNewestFirst(_)
SortNewestFirst(events) ==
  IF events = <<>> THEN <<>>
  ELSE InsertNewestFirst(
         SortNewestFirst(SubSeq(events, 1, Len(events) - 1)),
         events[Len(events)])

listEvents(store, since, type, limit) ==
  LET afterSince == IF since # NoTime
                      THEN SelectSeq(store, LAMBDA e : e.timestamp > since)
                      ELSE store
      ofType == IF type # NullStr
                  THEN SelectSeq(afterSince, LAMBDA e : e.type = type)
                  ELSE afterSince
      sorted == SortNewestFirst(ofType)
  IN slice(sorted, 0, limit)

ListEventsArgs ==
  [since : {NoTime, 1}, type : {NullStr, "task.created"},
   limit : {1, DefaultLimit}]

CallListEvents ==
  /\ \E args \in ListEventsArgs :
       ret' = [op |-> "listEvents", args |-> args,
               events |-> listEvents(eventStore, args.since, args.type,
                                     args.limit)]
  /\ UNCHANGED <<tasks, now, busVars, raceVars>>

\* emitters, one subscriber polling, and a reader of the log, over time
NextLog ==
  \/ CallEmit
  \/ CallSubscribe
  \/ CallPoll
  \/ CallListEvents
  \/ TickBus

SpecLog == Init /\ [][NextLog]_vars

\* e was emitted more than the retention period before the present moment
OlderThanRetention(e) == e.timestamp < now - EVENT_RETENTION_MS

\* C15: no event returned by listEvents, and no event returned by a poll
\* call, is older than the retention window at the time of the call.
C15_RetentionOnReads ==
  [][/\ (now' = now /\ ret'.op = "listEvents") =>
          \A k \in DOMAIN ret'.events : ~OlderThanRetention(ret'.events[k])
     /\ \A s \in DOMAIN subscriptions :
          PollCall(s) =>
            \A k \in DOMAIN ret'.res.events :
              ~OlderThanRetention(ret'.res.events[k])]_vars


(***************************************************************************)
(* The log near its capacity.  The process starts either with an empty     *)
(* log or with the log left by MAX_EVENTS - 1 emits of task.created made   *)
(* within the first millisecond, and emits at most MaxEmits more events.   *)
(***************************************************************************)
Backlog ==
  [i \in 1..(MAX_EVENTS - 1) |->
     [id |-> i, type |-> "task.created", timestamp |-> 0, payload |-> <<>>]]

InitLongLog ==
  /\ tasks = <<>>
  /\ now = 0
  /\ ret = [op |-> "none"]
  /\ \/ eventStore = <<>> /\ nEvents = 0
     \/ eventStore = Backlog /\ nEvents = Len(Backlog)
  /\ subscriptions = <<>>
  /\ pendingPolls = <<>>
  /\ timers = {}
  /\ pollRes = <<>>
  /\ nSubs = 0
  /\ nPolls = 0
  /\ inFlight = <<>>
  /\ pc = [w \in Agents |-> "idle"]
  /\ loc = [w \in Agents |-> [filename |-> NoFilename]]
  /\ rres = [w \in Agents |-> [op |-> "none"]]

\* the number of events emitted since the start
EmittedSinceStart ==
  IF nEvents >= Len(Backlog) THEN nEvents - Len(Backlog) ELSE nEvents

CallEmitMore ==
  /\ EmittedSinceStart < MaxEmits
  /\ \E type \in EmitTypes :
       LET r == emit(Bus, type, <<>>, now) IN
       /\ SetBus(r.bus)
       /\ ret' = [op |-> "emit", res |-> r.event]
  /\ UNCHANGED <<tasks, now, nSubs, nPolls, raceVars>>

NextLongLog ==
  \/ CallEmitMore
  \/ TickBus

SpecLongLog == InitLongLog /\ [][NextLongLog]_vars

\* C16: the log never holds more than MAX_EVENTS events, and it holds the
\* most recently emitted events in emission order: with n events emitted so
\* far (event ids are given out in emission order, 1..n) the log of length
\* k is the events n-k+1, ..., n.
C16_LogBoundedSuffix ==
  /\ Len(eventStore) <= MAX_EVENTS
  /\ \A i \in DOMAIN eventStore :
       eventStore[i].id = nEvents - Len(eventStore) + i

\* the log is full: the oldest two events have been dropped for the newest
\* two, the last of them emitted one millisecond after the others
C16_Witness ==
  /\ Len(eventStore) = MAX_EVENTS
  /\ nEvents = MAX_EVENTS + 2
  /\ eventStore[1].id = 3
  /\ eventStore[MAX_EVENTS].id = nEvents
  /\ eventStore[MAX_EVENTS].timestamp = 1


(***************************************************************************)
(* tools/events.js: the MCP handlers in front of the event bus.            *)
(***************************************************************************)
events_subscribe(B, event_types, webhook_url, id, t) ==
  LET invalidTypes == {type \in event_types : type \notin EVENT_TYPES} IN
  IF invalidTypes # {}
    THEN [bus |-> B,
          res |-> [error |-> "Invalid event types",
                   invalid_types |-> invalidTypes,
                   valid_types |-> EVENT_TYPES]]
    ELSE subscribe(B, event_types, webhook_url, id, t)

events_unsubscribe(B, subscription_id) == unsubscribe(B, subscription_id)

ToolEventsSubscribe ==
  /\ nSubs < MaxSubs
  /\ \E event_types \in SubscribeRequests :
       LET r == events_subscribe(Bus, event_types, NullStr, nSubs + 1, now) IN
       /\ SetBus(r.bus)
       /\ nSubs' = IF r.bus # Bus THEN nSubs + 1 ELSE nSubs
       /\ ret' = [op |-> "events_subscribe", event_types |-> event_types,
                  res |-> r.res]
  /\ UNCHANGED <<tasks, now, nPolls, raceVars>>

ToolEventsUnsubscribe ==
  /\ \E subscription_id \in 1..MaxSubs :
       LET r == events_unsubscribe(Bus, subscription_id) IN
       /\ SetBus(r.bus)
       /\ ret' = [op |-> "events_unsubscribe",
                  subscription_id |-> subscription_id, res |-> r.res]
  /\ UNCHANGED <<tasks, now, nSubs, nPolls, raceVars>>

\* subscribers coming through the library and through the handlers, with
\* emitters and pollers
NextEventTools ==
  \/ ToolEventsSubscribe
  \/ ToolEventsUnsubscribe
  \/ CallSubscribe
  \/ CallEmit
  \/ CallPoll
  \/ PollTimeout

SpecEventTools == Init /\ [][NextEventTools]_vars

\* the step is a call of subscribe or of events_subscribe
SubscribeCall ==
  /\ ret'.op \in {"subscribe", "events_subscribe"}
  /\ (ret' # ret \/ nSubs' # nSubs)

\* the call reported success
Succeeded(res) == "success" \in DOMAIN res /\ res.success

\* C17: a call of subscribe or of events_subscribe whose event_types has at
\* least one type of EVENT_TYPES succeeds and stores, under a new id, a
\* subscription whose event_types is the valid part of the request and whose
\* last_event_id is null, every other subscription staying as it was; a call
\* with no valid type does not succeed and leaves the subscriptions as they
\* were.
C17_SubscribeValidation ==
  [][SubscribeCall =>
       LET valid == ret'.event_types \cap EVENT_TYPES IN
       IF valid # {}
         THEN /\ Succeeded(ret'.res)
              /\ ret'.res.event_types = valid
              /\ ret'.res.subscription_id \notin DOMAIN subscriptions
              /\ DOMAIN subscriptions' =
                   DOMAIN subscriptions \cup {ret'.res.subscription_id}
              /\ subscriptions'[ret'.res.subscription_id].event_types = valid
              /\ subscriptions'[ret'.res.subscription_id].last_event_id
                   = NullId
              /\ \A o \in DOMAIN subscriptions :
                   subscriptions'[o] = subscriptions[o]
         ELSE /\ ~Succeeded(ret'.res)
              /\ subscriptions' = subscriptions]_vars


(***************************************************************************)
(* tools/tasks.js: the MCP handlers in front of the library.  Each is      *)
(* [dir |-> the directory afterwards, bus |-> the event bus afterwards,    *)
(* res |-> the object returned].                                           *)
(***************************************************************************)
\* tasks_claim that emits task.claimed whatever claimTask returned
tasks_claimAlwaysEmits(D, B, filename, agent_id, t) ==
  LET result == claimTask(D, filename, agent_id, t) IN
  [dir |-> result.dir,
   bus |-> emit(B, "task.claimed",
                [filename |-> filename, agent_id |-> agent_id], t).bus,
   res |-> result.res]

tasks_claim(D, B, filename, agent_id, t) ==
  LET result == claimTask(D, filename, agent_id, t) IN
  IF result.res.success
    THEN [dir |-> result.dir,
          bus |-> emit(B, "task.claimed",
                       [filename |-> filename, agent_id |-> agent_id,
                        job_id |-> result.res.task.jobId,
                        company |-> result.res.task.company], t).bus,
          res |-> result.res]
    ELSE [dir |-> result.dir, bus |-> B, res |-> result.res]

tasks_release(D, B, filename) ==
  LET result == releaseTask(D, filename) IN
  [dir |-> result.dir, bus |-> B, res |-> result.res]

\* tasks_complete reading the record after completeTask has deleted it
tasks_completeReadsAfter(D, B, filename, t) ==
  LET result == completeTask(D, filename)
      task == getTask(result.dir, filename)
  IN IF result.res.success /\ task # NoTask
       THEN [dir |-> result.dir,
             bus |-> emit(B, "task.completed",
                          [filename |-> filename, type |-> task.type,
                           job_id |-> task.jobId, company |-> task.company,
                           tokens |-> NullStr], t).bus,
             res |-> result.res]
       ELSE [dir |-> result.dir, bus |-> B, res |-> result.res]

tasks_complete(D, B, filename, t) ==
  LET task == getTask(D, filename)
      result == completeTask(D, filename)
  IN IF result.res.success /\ task # NoTask
       THEN [dir |-> result.dir,
             bus |-> emit(B, "task.completed",
                          [filename |-> filename, type |-> task.type,
                           job_id |-> task.jobId, company |-> task.company,
                           tokens |-> NullStr], t).bus,
             res |-> result.res]
       ELSE [dir |-> result.dir, bus |-> B, res |-> result.res]

\* SELECT * FROM jobs WHERE id = ?
JobRow(job_id) ==
  IF \E j \in JobTable : j.id = job_id
    THEN CHOOSE j \in JobTable : j.id = job_id
    ELSE [id |-> NullId]

\* the create handlers emitting task.created whatever createTask returned
tasks_createAlwaysEmits(D, B, job_id, type, filename, t) ==
  LET job == JobRow(job_id) IN
  IF job.id = NullId
    THEN [dir |-> D, bus |-> B,
          res |-> [error |-> "Job not found", job_id |-> job_id]]
  ELSE LET taskData == [type |-> type, jobId |-> job.id,
                        company |-> job.company]
           result == createTask(D, taskData, filename, t)
       IN [dir |-> result.dir,
           bus |-> emit(B, "task.created",
                        [filename |-> filename, type |-> type,
                         job_id |-> job.id, company |-> job.company], t).bus,
           res |-> [success |-> result.res.success,
                    already_exists |-> result.res.already_exists,
                    filename |-> result.res.filename, job_id |-> job.id,
                    company |-> job.company]]

tasks_create(D, B, job_id, type, filename, t) ==
  LET job == JobRow(job_id) IN
  IF job.id = NullId
    THEN [dir |-> D, bus |-> B,
          res |-> [error |-> "Job not found", job_id |-> job_id]]
  ELSE LET taskData == [type |-> type, jobId |-> job.id,
                        company |-> job.company]
           result == createTask(D, taskData, filename, t)
       IN [dir |-> result.dir,
           bus |-> IF result.res.success /\ ~result.res.already_exists
                     THEN emit(B, "task.created",
                               [filename |-> filename, type |-> type,
                                job_id |-> job.id,
                                company |-> job.company], t).bus
                     ELSE B,
           res |-> [success |-> result.res.success,
                    already_exists |-> result.res.already_exists,
                    filename |-> result.res.filename, job_id |-> job.id,
                    company |-> job.company]]

tasks_create_research(D, B, job_id, t) ==
  LET job == JobRow(job_id) IN
  tasks_create(D, B, job_id, "research",
               IF job.id = NullId THEN NoFilename
               ELSE ResearchFilename(slugify(job.company)), t)

tasks_create_materials(D, B, job_id, t) ==
  LET job == JobRow(job_id) IN
  tasks_create(D, B, job_id, "materials",
               IF job.id = NullId THEN NoFilename
               ELSE MaterialsFilename(slugify(job.company)), t)

\* a handler's effect on the variables; a handler that emits needs a free
\* event id
Handled(r) ==
  /\ r.bus # Bus => nEvents < MaxEmits
  /\ tasks' = r.dir
  /\ SetBus(r.bus)
  /\ UNCHANGED <<now, nSubs, nPolls, raceVars>>

ToolTasksClaim ==
  \E filename \in Filenames, agent_id \in AgentArgs :
    LET r == tasks_claim(tasks, Bus, filename, agent_id, now) IN
    /\ Handled(r)
    /\ ret' = [op |-> "tasks_claim", filename |-> filename,
               agent_id |-> agent_id, res |-> r.res]

ToolTasksRelease ==
  \E filename \in Filenames :
    LET r == tasks_release(tasks, Bus, filename) IN
    /\ Handled(r)
    /\ ret' = [op |-> "tasks_release", filename |-> filename, res |-> r.res]

ToolTasksComplete ==
  \E filename \in Filenames :
    LET r == tasks_complete(tasks, Bus, filename, now) IN
    /\ Handled(r)
    /\ ret' = [op |-> "tasks_complete", filename |-> filename, res |-> r.res]

ToolTasksCreateResearch ==
  \E job_id \in JobIdArgs :
    LET r == tasks_create_research(tasks, Bus, job_id, now) IN
    /\ Handled(r)
    /\ ret' = [op |-> "tasks_create_research", job_id |-> job_id,
               res |-> r.res]

ToolTasksCreateMaterials ==
  \E job_id \in JobIdArgs :
    LET r == tasks_create_materials(tasks, Bus, job_id, now) IN
    /\ Handled(r)
    /\ ret' = [op |-> "tasks_create_materials", job_id |-> job_id,
               res |-> r.res]

\* the handlers of one MCP server process
NextTools ==
  \/ ToolTasksCreateResearch
  \/ ToolTasksCreateMaterials
  \/ ToolTasksClaim
  \/ ToolTasksRelease
  \/ ToolTasksComplete
  \/ TickLock

SpecTools == Init /\ [][NextTools]_vars

\* C8: tasks_claim, tasks_release and tasks_complete on a filename that has
\* no record return success=false with 'Task not found'; a tasks_claim that
\* fails (not found or already claimed) leaves every task record and the
\* event log as they were.
C8_NegativeResults ==
  [][\A f \in Filenames :
       /\ ((Did("tasks_claim", f) \/ Did("tasks_release", f)
              \/ Did("tasks_complete", f)) /\ f \notin DOMAIN tasks) =>
            /\ ret'.res.success = FALSE
            /\ ret'.res.error = "Task not found"
            /\ tasks' = tasks
       /\ (Did("tasks_claim", f) /\ ~ret'.res.success) =>
            /\ ret'.res.error \in {"Task not found", "Task already claimed"}
            /\ tasks' = tasks
            /\ eventStore' = eventStore
            /\ nEvents' = nEvents]_vars

\* a claim by another worker was refused as already claimed; the log ends
\* with the event of the claim that succeeded before it
C8_Witness ==
  /\ ret.op = "tasks_claim"
  /\ ret.res.success = FALSE
  /\ ret.res.error = "Task already claimed"
  /\ ret.agent_id # ret.res.claimed_by
  /\ Len(eventStore) = 2
  /\ nEvents = 2
  /\ eventStore[2].type = "task.claimed"
  /\ eventStore[2].payload.agent_id = ret.res.claimed_by


\* the step appended one event, of the given type, to the log
EmittedOne(type) ==
  /\ nEvents' = nEvents + 1
  /\ eventStore' # <<>>
  /\ eventStore'[Len(eventStore')].id = nEvents'
  /\ eventStore'[Len(eventStore')].type = type
  /\ eventStore'[Len(eventStore')].timestamp = now
  /\ \A i \in 1..(Len(eventStore') - 1) : eventStore'[i].id <= nEvents

\* the step appended no event
EmittedNone == nEvents' = nEvents /\ eventStore' = eventStore

\* the step is a call of one of the two create handlers
CreateCall ==
  /\ now' = now
  /\ ret'.op \in {"tasks_create_research", "tasks_create_materials"}

\* C18: a call of tasks_create_research or tasks_create_materials appends
\* one task.created event, naming the file, exactly when it wrote a new
\* record (it returned already_exists = false), and then the record is in
\* the directory, pending and stamped with the time of the call; it appends
\* nothing when the record existed or the job is missing.  A call of
\* tasks_claim appends one task.claimed event, naming file and worker,
\* exactly when it returned success, and then the stored record is
\* in_progress under that worker.
C18_EmitOnSuccess ==
  [][/\ CreateCall =>
          IF "error" \in DOMAIN ret'.res
            THEN /\ ret'.res.error = "Job not found"
                 /\ tasks' = tasks
                 /\ EmittedNone
            ELSE LET f == ret'.res.filename IN
                 IF ret'.res.already_exists
                   THEN /\ f \in DOMAIN tasks
                        /\ tasks' = tasks
                        /\ EmittedNone
                   ELSE /\ f \notin DOMAIN tasks
                        /\ f \in DOMAIN tasks'
                        /\ tasks'[f].status = "pending"
                        /\ tasks'[f].createdAt = now
                        /\ EmittedOne("task.created")
                        /\ eventStore'[Len(eventStore')].payload.filename = f
                        /\ eventStore'[Len(eventStore')].payload.type
                             = tasks'[f].type
     /\ \A f \in Filenames :
          Did("tasks_claim", f) =>
            IF ret'.res.success
              THEN /\ tasks'[f].status = "in_progress"
                   /\ tasks'[f].claimed_by = ret'.agent_id
                   /\ tasks'[f].claimed_at = now
                   /\ EmittedOne("task.claimed")
                   /\ eventStore'[Len(eventStore')].payload.filename = f
                   /\ eventStore'[Len(eventStore')].payload.agent_id
                        = ret'.agent_id
              ELSE /\ tasks' = tasks
                   /\ EmittedNone]_vars

\* tasks_claim has just succeeded on the record a create handler wrote: the
\* log is the task.created event of that file followed by the task.claimed
\* event of the worker
C18_Witness ==
  /\ ret.op = "tasks_claim"
  /\ ret.res.success = TRUE
  /\ Len(eventStore) = 2
  /\ eventStore[1].type = "task.created"
  /\ eventStore[1].payload.filename = ret.filename
  /\ eventStore[2].type = "task.claimed"
  /\ eventStore[2].payload.filename = ret.filename
  /\ eventStore[2].payload.agent_id = ret.agent_id
  /\ ret.filename \in DOMAIN tasks
  /\ tasks[ret.filename].claimed_by = ret.agent_id


\* C19: a tasks_complete that returns success removes the record and appends
\* exactly one task.completed event, whose payload carries the filename and
\* the type, job id and company the record had just before the call; in the
\* state that holds the event the record is gone.  A tasks_complete that
\* fails changes neither the directory nor the log.
C19_CompleteEmitsOnce ==
  [][\A f \in Filenames :
       Did("tasks_complete", f) =>
         IF ret'.res.success
           THEN /\ f \in DOMAIN tasks
                /\ f \notin DOMAIN tasks'
                /\ EmittedOne("task.completed")
                /\ eventStore'[Len(eventStore')].payload.filename = f
                /\ eventStore'[Len(eventStore')].payload.type = tasks[f].type
                /\ eventStore'[Len(eventStore')].payload.job_id
                     = tasks[f].jobId
                /\ eventStore'[Len(eventStore')].payload.company
                     = tasks[f].company
           ELSE /\ ret'.res.error = "Task not found"
                /\ tasks' = tasks
                /\ EmittedNone]_vars

\* the research task of Acme AI was created, claimed and completed: the log
\* ends with its task.completed event and the record is gone
C19_Witness ==
  /\ ret.op = "tasks_complete"
  /\ ret.res.success = TRUE
  /\ ret.filename = ResearchFilename(slugify(AcmeAI))
  /\ ret.filename \notin DOMAIN tasks
  /\ Len(eventStore) = 3
  /\ eventStore[1].type = "task.created"
  /\ eventStore[2].type = "task.claimed"
  /\ eventStore[3].type = "task.completed"
  /\ eventStore[3].payload.filename = ret.filename
  /\ eventStore[3].payload.type = "research"
  /\ eventStore[3].payload.company = AcmeAI


\* the record of file f passes the filter of a list call made now
Matches(f, flt) ==
  /\ flt.type \in {NullStr, tasks[f].type}
  /\ flt.status \in
       {NullStr,
        IF flt.includeStale /\ OldClaim(f) THEN "pending" ELSE tasks[f].status}

\* C20: whatever the stored tasks, the filter and the order in which the
\* directory lists the files, listTasksSync returns one entry for each
\* stored task that passes the filter and no other entry, ordered by
\* creation time, oldest first: for positions i < j the createdAt of entry
\* i is not later than that of entry j.
C20_FifoListing ==
  [][(now' = now /\ ret'.op = "listTasksSync") =>
       /\ \A i, j \in DOMAIN ret'.res :
            i < j => /\ ret'.res[i].createdAt <= ret'.res[j].createdAt
                     /\ ret'.res[i].filename # ret'.res[j].filename
       /\ \A f \in Filenames :
            EntriesOf(ret'.res, f) # {} <=>
              (f \in DOMAIN tasks /\ Matches(f, ret'.filter))
       /\ \A i \in DOMAIN ret'.res :
            ret'.res[i].createdAt = tasks[ret'.res[i].filename].createdAt]_vars

\* an unfiltered list returned both tasks, the one created at time 0 before
\* the one created 30 minutes later
C20_Witness ==
  /\ ret.op = "listTasksSync"
  /\ ret.filter.type = NullStr
  /\ ret.filter.status = NullStr
  /\ Len(ret.res) = 2
  /\ ret.res[1].createdAt = 0
  /\ ret.res[2].createdAt = 30 * 60 * 1000
  /\ ret.res[1].filename = MaterialsFilename(slugify(AcmeAI))
  /\ ret.res[2].filename = ResearchFilename(slugify(AcmeAI))

-----------------------------------------------------------------------------
\* Webhook subscriptions and the deliveries emit starts

MaxHookSubs == 2
MaxHookEmits == 2
MaxHookPolls == 1

WebhookUrl == "http://agent.local/hook"

\* the subscriptions that have a webhook_url
HookSubs(subs) == {s \in DOMAIN subs : subs[s].webhook_url # NullStr}

CallSubscribeWebhook ==
  /\ Cardinality(HookSubs(subscriptions)) < MaxHookSubs
  /\ \E event_types \in SubscribeRequests :
       LET r == subscribe(Bus, event_types, WebhookUrl, nSubs + 1, now) IN
       /\ SetBus(r.bus)
       /\ nSubs' = IF r.res.success THEN nSubs + 1 ELSE nSubs
       /\ ret' = [op |-> "subscribe", event_types |-> event_types,
                  res |-> r.res]
  /\ UNCHANGED <<tasks, now, nPolls, raceVars>>

\* the POST of an event to a webhook is answered (no caller gets a result:
\* emit has returned)
WebhookDelivered ==
  /\ \E e \in DOMAIN inFlight : SetBus(fetchSettled(Bus, e, TRUE))
  /\ UNCHANGED <<tasks, now, ret, nSubs, nPolls, raceVars>>

\* the POST of an event to a webhook fails (fetch rejects)
WebhookFailed ==
  /\ \E e \in DOMAIN inFlight : SetBus(fetchSettled(Bus, e, FALSE))
  /\ UNCHANGED <<tasks, now, ret, nSubs, nPolls, raceVars>>

\* emit while webhook deliveries are followed
EmitWithHooks == nEvents < MaxHookEmits /\ CallEmit

\* poll while webhook deliveries are followed
PollWithHooks == nPolls < MaxHookPolls /\ CallPoll

NextHooks ==
  \/ CallSubscribeWebhook
  \/ EmitWithHooks
  \/ PollWithHooks
  \/ WebhookDelivered
  \/ WebhookFailed

SpecHooks == Init /\ [][NextHooks]_vars

\* the step is the fetch of event e settling: the delivery of e moves on
\* and no event is emitted
FetchSettles(e) ==
  /\ e \in DOMAIN inFlight
  /\ nEvents' = nEvents
  /\ ret' = ret
  /\ e \notin DOMAIN inFlight' \/ inFlight'[e] # inFlight[e]

\* C21: emit never fails. An emit of any type, one outside EVENT_TYPES
\* included, appends the event to the log and returns that event, and
\* resolves every suspended poll whose subscription lists the type with that
\* event, whatever webhook subscriptions there are. A webhook POST that
\* settles, failed or not, changes neither the log, nor what emit returned,
\* nor any poll; the delivery goes on to the same next webhook subscription
\* as after a POST that succeeded, and the subscriptions are left as they
\* are (a failure) or the cursor of the one posted to is set to the event.
C21_EmitNeverFails ==
  [][ /\ EmitCall =>
          /\ ret'.res.id = nEvents + 1
          /\ ret'.res.type \in EmitTypes
          /\ eventStore' = Append(eventStore, ret'.res)
          /\ \A p \in DOMAIN pendingPolls :
               IF ret'.res.type
                    \in subscriptions[pendingPolls[p].subscription_id].event_types
                 THEN /\ ResolvedNow(p)
                      /\ ResolvedWith(p) = <<ret'.res>>
                 ELSE pollRes'[p] = pollRes[p]
      /\ \A e \in DOMAIN inFlight :
           FetchSettles(e) =>
             /\ eventStore' = eventStore
             /\ subscriptions' \in
                  {subscriptions, fetchSettled(Bus, e, TRUE).subscriptions}
             /\ pendingPolls' = pendingPolls
             /\ pollRes' = pollRes
             /\ timers' = timers
             /\ inFlight' = fetchSettled(Bus, e, TRUE).inFlight
             /\ \A o \in DOMAIN inFlight \ {e} : inFlight'[o] = inFlight[o]
    ]_vars

\* an event of an unknown type is in the log, and the POST of a later
\* event to the first webhook subscription has failed (its cursor is still
\* null) while the POST of the same event to the second one is in flight
C21_Witness ==
  /\ Len(eventStore) = 2
  /\ eventStore[1].type = "not.a.type"
  /\ 2 \in DOMAIN inFlight
  /\ inFlight[2].at = 2
  /\ HookSubs(subscriptions) = {1, 2}
  /\ inFlight[2].event.type \in subscriptions[1].event_types
  /\ subscriptions[1].last_event_id = NullId

-----------------------------------------------------------------------------
\* the lock expiry time the documentation of the autonomous mode states
DocumentedExpiryMs == 10 * 60 * 1000

\* C22: a record claimed by an agent that then crashed can be claimed by
\* another agent once 10 minutes have passed since the claim: claimTask on an
\* in_progress record whose claimed_at is more than 10 minutes old succeeds.
C22_LockExpiresAsDocumented ==
  [][\A f \in Filenames :
       (/\ Did("claimTask", f)
        /\ f \in DOMAIN tasks
        /\ tasks[f].status = "in_progress"
        /\ tasks[f].claimed_at # NoTime
        /\ tasks[f].claimed_by # ret'.agentId
        /\ now - tasks[f].claimed_at > DocumentedExpiryMs) =>
          ret'.res.success = TRUE]_vars

-----------------------------------------------------------------------------
\* emitters and a reader of the log, over time, with a subscription present
MaxListEmits == 2

\* emit while the log is being listed
EmitForList == nEvents < MaxListEmits /\ CallEmit

NextEventList ==
  \/ EmitForList
  \/ CallSubscribe
  \/ CallListEvents
  \/ TickBus

SpecEventList == Init /\ [][NextEventList]_vars

\* positions of the log whose event passes the filter of a listEvents call
Matching(args) ==
  {i \in DOMAIN eventStore :
     /\ args.since # NoTime => eventStore[i].timestamp > args.since
     /\ args.type # NullStr => eventStore[i].type = args.type}

-----------------------------------------------------------------------------
\* Producers and workers as separate processes on one task directory: the
\* file-system calls of createTask, claimTask and completeTask interleave.

\* createTask, lines 222-231: the existence check
CreateExists(w) ==
  /\ pc[w] = "idle"
  /\ \E filename \in Filenames, taskData \in TaskData :
       IF fileExists(tasks, filename)
         THEN /\ pc' = [pc EXCEPT ![w] = "idle"]
              /\ loc' = [loc EXCEPT ![w] = [filename |-> filename]]
              /\ rres' = [rres EXCEPT ![w] =
                   [op |-> "createTask", filename |-> filename,
                    res |-> [success |-> TRUE, already_exists |-> TRUE,
                             filename |-> filename]]]
         ELSE /\ pc' = [pc EXCEPT ![w] = "create_write"]
              /\ loc' = [loc EXCEPT ![w] = [filename |-> filename,
                                            taskData |-> taskData]]
              /\ UNCHANGED rres
  /\ UNCHANGED <<tasks, now, ret, busVars>>

\* createTask, lines 233-246: build the record, write the file, return
CreateWrite(w) ==
  /\ pc[w] = "create_write"
  /\ tasks' = writeJsonFile(tasks, loc[w].filename,
                            NewTask(loc[w].taskData, now))
  /\ Return(w, "createTask",
            [success |-> TRUE, already_exists |-> FALSE,
             filename |-> loc[w].filename])
  /\ UNCHANGED <<loc, now, ret, busVars>>

NextCreateRace ==
  \/ \E w \in Agents : CreateExists(w)
  \/ \E w \in Agents : CreateWrite(w)
  \/ \E w \in Agents : ClaimExists(w)
  \/ \E w \in Agents : ClaimRead(w)
  \/ \E w \in Agents : ClaimStamp(w)
  \/ \E w \in Agents : ClaimWrite(w)

SpecCreateRace == Init /\ [][NextCreateRace]_vars

\* C24: creation is race-free: the write of a createTask never lands on a
\* filename that has a record at that moment (so it never resets a claimed
\* record to pending), and of two createTask calls on one filename that
\* were both past their existence check, the second to write does not
\* return already_exists=false as well.
C24_CreateRaceFree ==
  [][\A w \in Agents :
       (pc[w] = "create_write" /\ pc'[w] = "idle") =>
         /\ loc[w].filename \notin DOMAIN tasks
         /\ \A o \in Agents \ {w} :
              ~(/\ rres[o].op = "createTask"
                /\ rres[o].filename = loc[w].filename
                /\ rres[o].res.already_exists = FALSE
                /\ rres'[w].res.already_exists = FALSE)]_vars

-----------------------------------------------------------------------------
\* server/index.js: the REST producers, which write into the same tasks
\* directory

\* job.company.toLowerCase().replace(/[^a-z0-9]+/g, '-')
companySlug(company) ==
  ReplaceNonSlugRuns([i \in DOMAIN company |-> toLowerCase(company[i])])

\* POST /api/jobs/:id/request-research
request_research(D, id, t) ==
  LET job == JobRow(id) IN
  IF job.id = NullId
    THEN [dir |-> D, res |-> [status |-> 404, error |-> "Job not found"]]
  ELSE LET filename == ResearchFilename(companySlug(job.company)) IN
    IF fileExists(D, filename)
      THEN [dir |-> D,
            res |-> [status |-> 200, success |-> TRUE,
                     message |-> "Research task already queued",
                     exists |-> TRUE]]
    ELSE [dir |-> writeJsonFile(D, filename,
                    NewTask([type |-> "research", jobId |-> job.id,
                             company |-> job.company], t)),
          res |-> [status |-> 200, success |-> TRUE,
                   message |-> "Research task queued", exists |-> FALSE]]

\* POST /api/jobs/:id/request-materials
request_materials(D, id, t) ==
  LET job == JobRow(id) IN
  IF job.id = NullId
    THEN [dir |-> D, res |-> [status |-> 404, error |-> "Job not found"]]
  ELSE LET filename == MaterialsFilename(companySlug(job.company)) IN
    [dir |-> writeJsonFile(D, filename,
               NewTask([type |-> "materials", jobId |-> job.id,
                        company |-> job.company], t)),
     res |-> [status |-> 200, success |-> TRUE,
              message |-> "Materials generation task queued"]]

PostRequestResearch ==
  /\ \E id \in JobIdArgs :
       LET r == request_research(tasks, id, now) IN
       /\ tasks' = r.dir
       /\ ret' = [op |-> "request-research", id |-> id, res |-> r.res]
  /\ UNCHANGED <<now, busVars, raceVars>>

PostRequestMaterials ==
  /\ \E id \in JobIdArgs :
       LET r == request_materials(tasks, id, now) IN
       /\ tasks' = r.dir
       /\ ret' = [op |-> "request-materials", id |-> id, res |-> r.res]
  /\ UNCHANGED <<now, busVars, raceVars>>

\* the producers (MCP tools and REST endpoints) and a worker claiming
NextProducers ==
  \/ ToolTasksCreateResearch
  \/ ToolTasksCreateMaterials
  \/ PostRequestResearch
  \/ PostRequestMaterials
  \/ ToolTasksClaim
  \/ TickLock

SpecProducers == Init /\ [][NextProducers]_vars

CreationOps ==
  {"tasks_create_research", "tasks_create_materials", "request-research",
   "request-materials"}

\* C25: no creation path modifies an existing record: a request through
\* tasks_create_research, tasks_create_materials, POST request-research or
\* POST request-materials leaves every record that exists as it is, so an
\* in_progress record keeps its status, claimed_at, claimed_by and
\* createdAt.
C25_CreationKeepsRecords ==
  [][(now' = now /\ ret'.op \in CreationOps) =>
       \A f \in DOMAIN tasks :
         f \in DOMAIN tasks' /\ tasks'[f] = tasks[f]]_vars

-----------------------------------------------------------------------------
\* C26: a record is deleted only by a complete of the worker that last held
\* a valid claim on it: a completeTask on a record that is pending (never
\* claimed, or released) does not delete the record, and a record that a
\* completeTask deletes is in_progress with a claim that is not stale.
C26_OnlyClaimantCompletes ==
  [][\A f \in Filenames :
       (Did("completeTask", f) /\ f \in DOMAIN tasks) =>
         /\ tasks[f].status = "pending" => f \in DOMAIN tasks'
         /\ f \notin DOMAIN tasks' => FreshClaim(f)]_vars

-----------------------------------------------------------------------------
\* tasks_complete called by several processes at once: getTask, the
\* existence check of completeTask, and the existsSync and unlinkSync of
\* deleteFile are separate steps.

\* an unlink that does not fail on a missing file
unlinkSyncForce(D, filename) == [dir |-> unlink(D, filename), threw |-> FALSE]

\* fs.unlinkSync: throws ENOENT when the file is not there
unlinkSync(D, filename) ==
  IF filename \in DOMAIN D
    THEN [dir |-> unlink(D, filename), threw |-> FALSE]
    ELSE [dir |-> D, threw |-> TRUE]

\* tasks_complete, line 225: getTask
CompleteGetTask(w) ==
  /\ pc[w] = "idle"
  /\ \E filename \in Filenames :
       loc' = [loc EXCEPT ![w] = [filename |-> filename,
                                  task |-> getTask(tasks, filename)]]
  /\ pc' = [pc EXCEPT ![w] = "complete_exists"]
  /\ UNCHANGED <<tasks, now, ret, rres, busVars>>

\* completeTask, lines 200-204: the existence check
CompleteExists(w) ==
  /\ pc[w] = "complete_exists"
  /\ IF fileExists(tasks, loc[w].filename)
       THEN /\ pc' = [pc EXCEPT ![w] = "delete_exists"]
            /\ UNCHANGED rres
       ELSE Return(w, "tasks_complete",
                   [success |-> FALSE, error |-> "Task not found"])
  /\ UNCHANGED <<tasks, loc, now, ret, busVars>>

\* deleteFile, line 212: fs.existsSync
DeleteExists(w) ==
  /\ pc[w] = "delete_exists"
  /\ IF fileExists(tasks, loc[w].filename)
       THEN /\ pc' = [pc EXCEPT ![w] = "delete_unlink"]
            /\ UNCHANGED rres
       ELSE Return(w, "tasks_complete",
                   [success |-> FALSE,
                    error |-> "Failed to delete task file"])
  /\ UNCHANGED <<tasks, loc, now, ret, busVars>>

\* deleteFile, lines 213-219: fs.unlinkSync, its error caught; then the
\* rest of completeTask and of tasks_complete, which emits after a success
\* when getTask had returned a record
DeleteUnlink(w) ==
  /\ pc[w] = "delete_unlink"
  /\ LET u == unlinkSync(tasks, loc[w].filename)
         task == loc[w].task
     IN /\ tasks' = u.dir
        /\ Return(w, "tasks_complete",
                  [success |-> ~u.threw,
                   error |-> IF u.threw THEN "Failed to delete task file"
                             ELSE NullStr])
        /\ IF ~u.threw /\ task # NoTask
             THEN /\ nEvents < MaxEmits
                  /\ SetBus(emit(Bus, "task.completed",
                                 [filename |-> loc[w].filename,
                                  type |-> task.type, job_id |-> task.jobId,
                                  company |-> task.company,
                                  tokens |-> NullStr], now).bus)
                  /\ UNCHANGED <<nSubs, nPolls>>
             ELSE UNCHANGED busVars
  /\ UNCHANGED <<loc, now, ret>>

NextCompleteRace ==
  \/ ToolTasksCreateResearch
  \/ \E w \in Agents : CompleteGetTask(w)
  \/ \E w \in Agents : CompleteExists(w)
  \/ \E w \in Agents : DeleteExists(w)
  \/ \E w \in Agents : DeleteUnlink(w)

SpecCompleteRace == Init /\ [][NextCompleteRace]_vars

\* number of events of a type about file f in a log
RECURSIVE CountEvents(_, _, _)
CountEvents(log, type, f) ==
  IF log = <<>> THEN 0
  ELSE CountEvents(Tail(log), type, f) +
       (IF Head(log).type = type /\ Head(log).payload.filename = f
          THEN 1 ELSE 0)

\* process w returns from tasks_complete in this step
CompleteReturns(w) == pc[w] # "idle" /\ pc'[w] = "idle"

\* C27: under any interleaving of concurrent completes, a call that returns
\* success is the one whose unlink removed the record (the record exists
\* before its last step and is gone after it), every other call returns
\* success=false with an error and changes neither directory nor log, a
\* returning call appends at most one event, and the log never holds more
\* task.completed events for a filename than task.created events for it:
\* at most one completion per created record.
C27_CompletedAtMostOnce ==
  [][\A w \in Agents :
       CompleteReturns(w) =>
         LET f == loc[w].filename
             r == rres'[w].res
         IN /\ IF r.success
                 THEN /\ f \in DOMAIN tasks
                      /\ f \notin DOMAIN tasks'
                      /\ nEvents' <= nEvents + 1
                 ELSE /\ r.error \in {"Task not found",
                                      "Failed to delete task file"}
                      /\ tasks' = tasks
                      /\ eventStore' = eventStore
            /\ CountEvents(eventStore', "task.completed", f)
                 <= CountEvents(eventStore', "task.created", f)]_vars

\* both processes were past the checks of completeTask and deleteFile on the
\* same record: the unlink of one succeeded, the other's threw, and the log
\* holds one task.completed event for the one record created
C27_Witness ==
  /\ rres["worker-A"].op = "tasks_complete"
  /\ rres["worker-B"].op = "tasks_complete"
  /\ rres["worker-A"].filename = rres["worker-B"].filename
  /\ rres["worker-A"].res.success
  /\ ~rres["worker-B"].res.success
  /\ rres["worker-B"].res.error = "Failed to delete task file"
  /\ pc["worker-B"] = "idle"
  /\ loc["worker-B"].task # NoTask
  /\ Len(eventStore) = 2
  /\ eventStore[2].type = "task.completed"
  /\ tasks = <<>>

-----------------------------------------------------------------------------
\* C28: no task stays locked forever: every stored record that is
\* in_progress carries a claimed_at, which is not later than the clock, and
\* once more than the staleness threshold has passed since it a claimTask by
\* any worker succeeds and makes that worker the holder; nothing but the
\* claim itself is needed for that.
C28_NoLockForever ==
  [][\A f \in Filenames :
       /\ (f \in DOMAIN tasks' /\ tasks'[f].status = "in_progress") =>
            /\ tasks'[f].claimed_at # NoTime
            /\ tasks'[f].claimed_at <= now'
       /\ (/\ Did("claimTask", f)
           /\ f \in DOMAIN tasks
           /\ tasks[f].status = "in_progress"
           /\ now > tasks[f].claimed_at + STALE_LOCK_MS) =>
            /\ ret'.res.success = TRUE
            /\ tasks'[f].status = "in_progress"
            /\ tasks'[f].claimed_by = ret'.agentId
            /\ tasks'[f].claimed_at = now]_vars

\* worker-A claimed both tasks at time 0 and did nothing more; 30 minutes
\* and 1 millisecond later worker-B has taken over one of them, and the
\* other is still stored as claimed by worker-A
C28_Witness ==
  /\ ret.op = "claimTask"
  /\ ret.agentId = "worker-B"
  /\ ret.res.success = TRUE
  /\ now = STALE_LOCK_MS + 1
  /\ DOMAIN tasks = Filenames
  /\ tasks[ret.filename].claimed_by = "worker-B"
  /\ tasks[ret.filename].claimed_at = now
  /\ \E g \in Filenames \ {ret.filename} :
       /\ tasks[g].status = "in_progress"
       /\ tasks[g].claimed_by = "worker-A"
       /\ tasks[g].claimed_at = 0

\* claimTask on file f by worker w, called now, would succeed
Claimable(f, w) == claimTask(tasks, f, w, now).res.success

\* C29: claim and list agree on staleness: for a listTasksSync call with
\* includeStale=true and every stored record of the listed type, the list
\* reports the record as pending (stored status pending, or is_stale=true)
\* exactly when a claimTask on it at the same instant would succeed: without
\* a status filter the entry is pending or stale iff claimable, under
\* status=pending the record is listed iff claimable, and under
\* status=in_progress it is listed iff not claimable.
C29_ClaimAndListAgree ==
  [][(now' = now /\ ret'.op = "listTasksSync" /\ ret'.filter.includeStale) =>
       \A f \in DOMAIN tasks :
         ret'.filter.type \in {NullStr, tasks[f].type} =>
           LET entries == EntriesOf(ret'.res, f)
               shown == IF ret'.filter.status = NullStr
                          THEN /\ entries # {}
                               /\ \A i \in entries :
                                    \/ ret'.res[i].status = "pending"
                                    \/ ret'.res[i].is_stale
                        ELSE IF ret'.filter.status = "pending"
                          THEN entries # {}
                        ELSE entries = {}
           IN /\ ret'.filter.status = NullStr => entries # {}
              /\ \A w \in Agents : shown <=> Claimable(f, w)]_vars

\* exactly 30 minutes after two claims, one of them since renewed: a list
\* with includeStale=true shows both records as in_progress and not stale,
\* and neither can be claimed
C29_Witness ==
  /\ ret.op = "listTasksSync"
  /\ ret.filter = [type |-> NullStr, status |-> NullStr,
                   includeStale |-> TRUE]
  /\ now = STALE_LOCK_MS
  /\ Len(ret.res) = 2
  /\ \A i \in DOMAIN ret.res :
       /\ ret.res[i].status = "in_progress"
       /\ ~ret.res[i].is_stale
       /\ ~Claimable(ret.res[i].filename, "worker-B")
  /\ \E i, j \in DOMAIN ret.res :
       ret.res[i].claimed_at = 0 /\ ret.res[j].claimed_at = STALE_LOCK_MS

-----------------------------------------------------------------------------
\* Workers that pass any agent id, or none, to claimTask
AgentIdArgs == Agents \cup {NullStr}

CallClaimTaskAnyId ==
  \E filename \in Filenames, agentId \in AgentIdArgs :
    LET r == claimTask(tasks, filename, agentId, now) IN
    /\ tasks' = r.dir
    /\ ret' = [op |-> "claimTask", filename |-> filename,
               agentId |-> agentId, res |-> r.res]
    /\ UNCHANGED <<now, busVars, raceVars>>

NextClaimIds ==
  \/ CallCreateTask
  \/ CallClaimTaskAnyId
  \/ CallReleaseTask
  \/ TickLock

SpecClaimIds == Init /\ [][NextClaimIds]_vars

\* what a caller can tell of the outcome of a claim, the claimant aside
Outcome(res) ==
  IF res.success
    THEN [success |-> TRUE, error |-> NullStr, claimed_at |-> res.claimed_at]
    ELSE [success |-> FALSE, error |-> res.error, claimed_at |-> NoTime]

\* C30: the worker id plays no part in the outcome of a claim: a claimTask
\* on a stored record succeeds or fails, with the same error, exactly as a
\* claimTask with any other worker id, null included, on the same record at
\* the same time would, and the records written differ in claimed_by only;
\* a claim by the worker that holds a claim that is not stale fails with
\* 'Task already claimed'.
C30_WorkerIdIrrelevant ==
  [][\A f \in Filenames :
       Did("claimTask", f) =>
         /\ \A w \in AgentIdArgs :
              LET other == claimTask(tasks, f, w, now) IN
              /\ Outcome(other.res) = Outcome(ret'.res)
              /\ DOMAIN other.dir = DOMAIN tasks'
              /\ \A g \in DOMAIN tasks' :
                   [other.dir[g] EXCEPT !.claimed_by = Absent]
                     = [tasks'[g] EXCEPT !.claimed_by = Absent]
         /\ (FreshClaim(f) /\ tasks[f].claimed_by = ret'.agentId) =>
              /\ ret'.res.success = FALSE
              /\ ret'.res.error = "Task already claimed"
              /\ tasks' = tasks]_vars

\* a record was claimed without a worker id, and the same caller's second
\* claim, again without an id, was refused 30 minutes later
C30_Witness ==
  /\ ret.op = "claimTask"
  /\ ret.agentId = NullStr
  /\ ret.filename \in DOMAIN tasks
  /\ ret.res.success = FALSE
  /\ ret.res.error = "Task already claimed"
  /\ ret.res.claimed_by = NullStr
  /\ now - ret.res.claimed_at = STALE_LOCK_MS

-----------------------------------------------------------------------------
\* the fields of a record that are not lock fields
Payload(task) ==
  [type |-> task.type, jobId |-> task.jobId, company |-> task.company,
   createdAt |-> task.createdAt]

\* C31: claimTask and releaseTask touch only lock fields: neither changes
\* the createdAt, type or payload fields of any record nor any other record;
\* a successful claim changes only status, claimed_at and claimed_by and
\* adds the filename annotation, a failing one changes nothing; a release
\* leaves the record pending with no claim fields, so that after claim and
\* release createdAt and payload are what they were before the claim.
C31_LockFieldsOnly ==
  [][\A f \in Filenames :
       ((Did("claimTask", f) \/ Did("releaseTask", f))
          /\ f \in DOMAIN tasks) =>
         /\ DOMAIN tasks' = DOMAIN tasks
         /\ \A g \in DOMAIN tasks \ {f} : tasks'[g] = tasks[g]
         /\ Payload(tasks'[f]) = Payload(tasks[f])
         /\ Did("claimTask", f) =>
              IF ret'.res.success
                THEN tasks'[f] = [tasks[f] EXCEPT !.status = "in_progress",
                                                  !.claimed_at = now,
                                                  !.claimed_by = ret'.agentId,
                                                  !.filename = f]
                ELSE tasks' = tasks
         /\ Did("releaseTask", f) =>
              /\ tasks'[f].status = "pending"
              /\ tasks'[f].claimed_at = NoTime
              /\ tasks'[f].claimed_by = Absent
              /\ tasks'[f].filename = tasks[f].filename]_vars

\* a record created at time 0 was claimed and, 30 minutes later, released:
\* it is pending again, keeps the annotation of the claim and its createdAt
C31_Witness ==
  /\ ret.op = "releaseTask"
  /\ ret.res.success
  /\ ret.filename \in DOMAIN tasks
  /\ now = STALE_LOCK_MS
  /\ tasks[ret.filename].status = "pending"
  /\ tasks[ret.filename].filename = ret.filename
  /\ tasks[ret.filename].claimed_at = NoTime
  /\ tasks[ret.filename].claimed_by = Absent
  /\ tasks[ret.filename].createdAt = 0

-----------------------------------------------------------------------------
\* Producers asking for work on every job of the table, through the MCP
\* tools and through the REST endpoints
AllJobIds == {j.id : j \in JobTable}

CreateResearchAnyJob ==
  \E job_id \in AllJobIds :
    LET r == tasks_create_research(tasks, Bus, job_id, now) IN
    /\ Handled(r)
    /\ ret' = [op |-> "tasks_create_research", job_id |-> job_id,
               res |-> r.res]

CreateMaterialsAnyJob ==
  \E job_id \in AllJobIds :
    LET r == tasks_create_materials(tasks, Bus, job_id, now) IN
    /\ Handled(r)
    /\ ret' = [op |-> "tasks_create_materials", job_id |-> job_id,
               res |-> r.res]

RequestResearchAnyJob ==
  /\ \E id \in AllJobIds :
       LET r == request_research(tasks, id, now) IN
       /\ tasks' = r.dir
       /\ ret' = [op |-> "request-research", job_id |-> id, res |-> r.res]
  /\ UNCHANGED <<now, busVars, raceVars>>

RequestMaterialsAnyJob ==
  /\ \E id \in AllJobIds :
       LET r == request_materials(tasks, id, now) IN
       /\ tasks' = r.dir
       /\ ret' = [op |-> "request-materials", job_id |-> id, res |-> r.res]
  /\ UNCHANGED <<now, busVars, raceVars>>

NextJobs ==
  \/ CreateResearchAnyJob
  \/ CreateMaterialsAnyJob
  \/ RequestResearchAnyJob
  \/ RequestMaterialsAnyJob

SpecJobs == Init /\ [][NextJobs]_vars

\* the type of task a creation request is for
RequestedType(op) ==
  IF op \in {"tasks_create_research", "request-research"}
    THEN "research" ELSE "materials"

\* C32: task keys identify the subject: a tasks_create_research or
\* tasks_create_materials for job J returns already_exists=true only if the
\* record stored under the filename is a task of that type for job J.
C32_KeyIdentifiesJob ==
  [][(/\ now' = now
      /\ ret'.op \in {"tasks_create_research", "tasks_create_materials"}
      /\ Succeeded(ret'.res)
      /\ ret'.res.already_exists) =>
        /\ ret'.res.filename \in DOMAIN tasks
        /\ tasks[ret'.res.filename].type = RequestedType(ret'.op)
        /\ tasks[ret'.res.filename].jobId = ret'.job_id]_vars

\* the filename of a task of the given type, from the company's slug
TaskFilename(type, slug) ==
  IF type = "research" THEN ResearchFilename(slug) ELSE MaterialsFilename(slug)

\* C33: every producer path derives the same key: for the company of every
\* job the filename the REST endpoints compute equals the one the MCP tools
\* compute, so a request for a job and type whose record exists under the
\* filename of either path, made through any path, creates no second
\* record.
C33_SameKeyOnEveryPath ==
  [][(now' = now /\ ret'.op \in CreationOps
        /\ JobRow(ret'.job_id).id # NullId) =>
       LET company == JobRow(ret'.job_id).company
           type == RequestedType(ret'.op)
           toolFile == TaskFilename(type, slugify(company))
           restFile == TaskFilename(type, companySlug(company))
       IN (toolFile \in DOMAIN tasks \/ restFile \in DOMAIN tasks) =>
            /\ toolFile = restFile
            /\ DOMAIN tasks' = DOMAIN tasks]_vars

-----------------------------------------------------------------------------
\* DELETE /api/tasks/:filename
delete_task(D, filename) ==
  IF fileExists(D, filename)
    THEN [dir |-> unlink(D, filename),
          res |-> [status |-> 200, success |-> TRUE,
                   message |-> "Task completed"]]
    ELSE [dir |-> D, res |-> [status |-> 404, error |-> "Task not found"]]

DeleteTask ==
  /\ \E filename \in Filenames :
       LET r == delete_task(tasks, filename) IN
       /\ tasks' = r.dir
       /\ ret' = [op |-> "DELETE /api/tasks", filename |-> filename,
                  res |-> r.res]
  /\ UNCHANGED <<now, busVars, raceVars>>

\* records created and deleted through the MCP tools and through the REST
\* endpoints of the UI
NextAnnounce ==
  \/ ToolTasksCreateResearch
  \/ ToolTasksCreateMaterials
  \/ ToolTasksComplete
  \/ PostRequestResearch
  \/ PostRequestMaterials
  \/ DeleteTask

SpecAnnounce == Init /\ [][NextAnnounce]_vars

\* C34: every record creation and deletion is announced: a step that adds
\* a task record appends a task.created event naming the file, and a step
\* that removes a task record appends a task.completed event naming it.
C34_CreationAndDeletionAnnounced ==
  [][\A f \in Filenames :
       /\ (f \notin DOMAIN tasks /\ f \in DOMAIN tasks') =>
            /\ EmittedOne("task.created")
            /\ eventStore'[Len(eventStore')].payload.filename = f
       /\ (f \in DOMAIN tasks /\ f \notin DOMAIN tasks') =>
            /\ EmittedOne("task.completed")
            /\ eventStore'[Len(eventStore')].payload.filename = f]_vars

-----------------------------------------------------------------------------
\* C36: the cursor only moves forward: no step moves the last_event_id of a
\* subscription, one with a webhook_url included, from an event to null or
\* to an event emitted earlier (event ids count the emits; null is 0).
C36_CursorOnlyForward ==
  [][\A s \in DOMAIN subscriptions \cap DOMAIN subscriptions' :
       subscriptions'[s].last_event_id >= subscriptions[s].last_event_id]_vars

-----------------------------------------------------------------------------
\* the bus with webhook subscriptions that are polled as well, over time
NextHooksClock ==
  \/ CallSubscribeWebhook
  \/ EmitWithHooks
  \/ PollWithHooks
  \/ WebhookDelivered
  \/ WebhookFailed
  \/ TickBus

SpecHooksClock == Init /\ [][NextHooksClock]_vars

\* C35: per-subscription delivery order: the events in the list a poll
\* returns are in emission order (increasing id), and when two successive
\* poll calls on one subscription, with no other call between them, both
\* return events, every event of the later list was emitted after every
\* event of the earlier list (a poll step leaves the webhook deliveries in
\* flight alone, which tells it from the answer to a POST).
C35_DeliveryOrder ==
  [][\A s \in 1..MaxSubs :
       (PollCall(s) /\ inFlight' = inFlight
          /\ ret'.res.outcome = "resolved") =>
         LET later == ret'.res.events IN
         /\ \A i, j \in DOMAIN later : i < j => later[i].id < later[j].id
         /\ (/\ ret.op = "poll"
             /\ ret.subscription_id = s
             /\ ret.res.outcome = "resolved") =>
              \A i \in DOMAIN ret.res.events, j \in DOMAIN later :
                ret.res.events[i].id < later[j].id]_vars

-----------------------------------------------------------------------------
\* emitters and a subscriber that subscribes and polls at any time
MaxWaiting == 1

\* poll while at most MaxWaiting polls have been suspended
PollFewWaiting == nPolls < MaxWaiting /\ CallPoll

NextFirstPoll ==
  \/ EmitForList
  \/ CallSubscribe
  \/ PollFewWaiting
  \/ TickBus

SpecFirstPoll == Init /\ [][NextFirstPoll]_vars

\* the events of the log whose type subscription s lists
OfSubscribedType(s) ==
  SelectSeq(eventStore, LAMBDA e : e.type \in subscriptions[s].event_types)

\* C37: a poll on a subscription whose last_event_id is null returns at once
\* every event of a subscribed type that is in the log, in log order, events
\* emitted before the subscribe call included, and sets the cursor to the
\* last of them; it suspends exactly when the log holds no event of a
\* subscribed type.
C37_FirstPollFromWholeLog ==
  [][\A s \in 1..MaxSubs :
       (/\ PollCall(s)
        /\ s \in DOMAIN subscriptions
        /\ subscriptions[s].last_event_id = NullId) =>
         IF OfSubscribedType(s) # <<>>
           THEN /\ ret'.res.outcome = "resolved"
                /\ ret'.res.events = OfSubscribedType(s)
                /\ subscriptions'[s].last_event_id
                     = ret'.res.events[Len(ret'.res.events)].id
                /\ pendingPolls' = pendingPolls
                /\ eventStore' = eventStore
           ELSE /\ ret'.res.outcome = "suspended"
                /\ subscriptions' = subscriptions
                /\ ret'.res.pollId \in DOMAIN pendingPolls'
                /\ pendingPolls'[ret'.res.pollId].subscription_id = s]_vars

\* the first poll of a subscription made at 1 ms returned two events, the
\* first of them emitted before the subscription existed, and the cursor is
\* at the second
C37_Witness ==
  /\ ret.op = "poll"
  /\ ret.res.outcome = "resolved"
  /\ Len(ret.res.events) = 2
  /\ ret.subscription_id \in DOMAIN subscriptions
  /\ subscriptions[ret.subscription_id].created_at = 1
  /\ ret.res.events[1].timestamp = 0
  /\ ret.res.events[2].timestamp = 1
  /\ subscriptions[ret.subscription_id].last_event_id = ret.res.events[2].id


(***************************************************************************)
(* The pending-poll table under every way a poll resolves: a matching      *)
(* emit, its timeout, unsubscribe and reset().                             *)
(***************************************************************************)
MaxWaiterSubs == 2
MaxWaiterEmits == 1

\* reset() without pendingPolls.clear()
resetKeepsPolls(B) ==
  [ResolvePolls([B EXCEPT !.eventStore = <<>>,
                          !.subscriptions = MapDelete(@, DOMAIN @)],
                DOMAIN B.pendingPolls, <<>>) EXCEPT
     !.subscriptions = MapDelete(@, DOMAIN @)]

\* reset(): the log and the subscriptions are cleared, every pending poll
\* is resolved with the empty list (its resolve clears its timer), and the
\* table of pending polls is cleared
reset(B) ==
  [ResolvePolls([B EXCEPT !.eventStore = <<>>,
                          !.subscriptions = MapDelete(@, DOMAIN @)],
                DOMAIN B.pendingPolls, <<>>) EXCEPT
     !.subscriptions = MapDelete(@, DOMAIN @),
     !.pendingPolls = MapDelete(@, DOMAIN @)]

CallReset ==
  /\ SetBus(reset(Bus))
  /\ ret' = [op |-> "reset", res |-> [undefined |-> TRUE]]
  /\ UNCHANGED <<tasks, now, nSubs, nPolls, raceVars>>

\* subscribe, with room for a second subscription
SubscribeWaiter ==
  /\ nSubs < MaxWaiterSubs
  /\ \E event_types \in SubscribeRequests :
       LET r == subscribe(Bus, event_types, NullStr, nSubs + 1, now) IN
       /\ SetBus(r.bus)
       /\ nSubs' = IF r.res.success THEN nSubs + 1 ELSE nSubs
       /\ ret' = [op |-> "subscribe", event_types |-> event_types,
                  res |-> r.res]
  /\ UNCHANGED <<tasks, now, nPolls, raceVars>>

UnsubscribeWaiter ==
  /\ \E subscriptionId \in 1..MaxWaiterSubs :
       LET r == unsubscribe(Bus, subscriptionId) IN
       /\ SetBus(r.bus)
       /\ ret' = [op |-> "unsubscribe", subscription_id |-> subscriptionId,
                  res |-> r.res]
  /\ UNCHANGED <<tasks, now, nSubs, nPolls, raceVars>>

PollWaiter ==
  /\ \E subscriptionId \in 1..MaxWaiterSubs :
       LET r == poll(Bus, subscriptionId, nPolls + 1) IN
       /\ r.res.outcome = "suspended" => nPolls < MaxPolls
       /\ SetBus(r.bus)
       /\ nPolls' = IF r.res.outcome = "suspended" THEN nPolls + 1 ELSE nPolls
       /\ ret' = [op |-> "poll", subscription_id |-> subscriptionId,
                  res |-> r.res]
  /\ UNCHANGED <<tasks, now, nSubs, raceVars>>

\* emit while polls wait
EmitWaiter == nEvents < MaxWaiterEmits /\ CallEmit

NextWaiters ==
  \/ EmitWaiter
  \/ SubscribeWaiter
  \/ UnsubscribeWaiter
  \/ PollWaiter
  \/ PollTimeout
  \/ CallReset

SpecWaiters == Init /\ [][NextWaiters]_vars

\* the poll p is resolved in the step
Resolves(p) == p \in DOMAIN pollRes /\ pollRes'[p] # pollRes[p]

\* C38: every entry of the pending-poll table belongs to a poll that has
\* not been resolved, whose timer is armed and whose subscription exists; a
\* poll that has been resolved was resolved once, has no entry and no armed
\* timer; and a step that resolves a poll removes its entry and its timer
\* in that step and is a matching emit (result: the event), the poll's
\* timeout, an unsubscribe of its subscription or a reset (result: empty).
C38_NoLeakedWaiters ==
  /\ [](\A p \in DOMAIN pendingPolls :
          /\ p \in DOMAIN pollRes /\ pollRes[p] = <<>>
          /\ p \in timers
          /\ pendingPolls[p].subscription_id \in DOMAIN subscriptions)
  /\ [](\A p \in DOMAIN pollRes :
          /\ Len(pollRes[p]) <= 1
          /\ pollRes[p] # <<>> =>
               p \notin DOMAIN pendingPolls /\ p \notin timers)
  /\ [](timers \subseteq DOMAIN pendingPolls)
  /\ [][\A p \in 1..(MaxPolls + 1) :
          Resolves(p) =>
            /\ p \in DOMAIN pendingPolls
            /\ p \notin DOMAIN pendingPolls'
            /\ p \notin timers'
            /\ \/ /\ EmitCall
                  /\ pollRes'[p] = <<(<<ret'.res>>)>>
                  /\ ret'.res.type \in
                       subscriptions[pendingPolls[p].subscription_id]
                         .event_types
               \/ /\ ret' = ret
                  /\ pollRes'[p] = <<(<<>>)>>
                  /\ pendingPolls' = MapDelete(pendingPolls, {p})
               \/ /\ UnsubscribeCall(pendingPolls[p].subscription_id)
                  /\ pollRes'[p] = <<(<<>>)>>
               \/ /\ ret'.op = "reset"
                  /\ pollRes'[p] = <<(<<>>)>>
                  /\ pendingPolls' = <<>>]_vars

\* reset has just resolved a poll suspended on the second subscription,
\* after an emit resolved a poll suspended on the first one
C38_Witness ==
  /\ ret.op = "reset"
  /\ DOMAIN pollRes = {1, 2}
  /\ Len(pollRes[1]) = 1 /\ pollRes[1][1] # <<>>
  /\ pollRes[2] = <<(<<>>)>>
  /\ nSubs = 2
  /\ subscriptions = <<>>
  /\ pendingPolls = <<>>
  /\ timers = {}

====
